---- MODULE Spec2Model ----
(***************************************************************************)
(* Ingestion and alerting pipeline of the pump.fun creator tracker.        *)
(*                                                                         *)
(* Wallet mode (src/index.js): historical backfill, then the new-coin      *)
(* polling loop and the migration polling loop, over the store of          *)
(* db/schema.sql reached through db/queries.js.                            *)
(*                                                                         *)
(* Social mode (src/index-creator.js): the creator scanner and             *)
(* services/creator-tracker.js over the store of db/schema-creator.sql.    *)
(* The two modes are two deployments: a behaviour runs one of them.        *)
(*                                                                         *)
(* SpecResolver: processCoin of services/creator-tracker.js on one coin.   *)
(* SpecLifecycle: one process with failing feed requests and the shutdown  *)
(* of its entry point. SpecListener: scanners/wallet-tracker.js.           *)
(* SpecPager: the paginated fetches of utils/pumpfun-api.js. SpecLedger:   *)
(* the two coin upsert statements on a coins table with all its columns.   *)
(* SpecRecompute: two statistics recomputations of one creator in flight.  *)
(* SpecSeen: the seen sets of the new-coin loops, one scan per action.     *)
(* SpecBulk: one bulkUpsertCoins transaction. SpecTransient: store calls   *)
(* of a new-coin scan that reject once. SpecScanner: two scanNewCoins      *)
(* calls in flight. SpecStartStop: startRealtimeScanning and               *)
(* stopRealtimeScanning. SpecEntry: main() of index.js with the historical *)
(* scan enabled or disabled. SpecPagerFair: SpecPager, requests settling.  *)
(*                                                                         *)
(* Every await of the source is one action: the awaited store query or     *)
(* feed request takes effect and the synchronous code that follows it runs *)
(* up to the next await.                                                   *)
(***************************************************************************)
EXTENDS Integers, Sequences, FiniteSets, TLC

\* ------------------------------------------------------------- bounds
NMints == 2             \* coins the upstream platform may ever hold
MaxRestarts == 1        \* process restarts explored
PageLimit == 2          \* page size of the migrated-coins listing (limit, scaled down)
HistoricalLimit == 4    \* config.scanning.historicalLimit (scaled down)
NSlots == 2             \* new-coin scans that may be in flight at once
MaxFields == 3          \* metadata fields extractTwitterInfo scans
MaxMaxCoins == 7        \* largest maxCoins a paginated fetch is called with
MaxStarts == 4          \* startRealtimeScanning calls explored
MaxSeenMints == 1100    \* mints a polling loop meets while its seen set is followed

\* ------------------------------------------------- program constants
RecentLimit == 100
RecentMigratedLimit == 50
UserLimit == 1000
BATCH_SIZE == 50
ProcessedKeep == 1000
NULL == 0

Mints == 1..NMints
Addrs == {"A", "B"}
Slots == 1..NSlots

Min(a, b) == IF a < b THEN a ELSE b

VARIABLES
  feed,        \* upstream platform: status: mint -> "none" | "live" | "complete",
               \* creator: mint -> the wallet that creates it
  developers,  \* table developers: address -> row (partial function)
  coins,       \* table coins: mint -> row (partial function)
  migrations,  \* table migrations: mint -> number of rows with that coin_mint
  alerts,      \* table alerts: mint -> sequence of rows with that coin_mint
  phase,       \* main() of index.js: "backfill" | "monitor" | "exited";
               \* main() of index-creator.js: "scanning"
  restarts,    \* process starts so far, beyond the first
  bf,          \* performHistoricalScan: position, locals, stats
  ud,          \* updateDeveloper: position and locals of the call in progress
  seenCoins,   \* realtime.js module-level Set
  nscan,       \* monitorNewCoins calls in flight: slot -> position and locals
  mscan,       \* monitorMigrations call in flight: position and locals
  creators,    \* social mode, table creators: twitter_handle -> row (partial function)
  creatorCoins,   \* social mode, table coins: mint -> row (partial function)
  processedMints, \* realtime-creator.js module-level Set
  sscan,       \* scanNewCoins call in flight: position and locals
  observed,    \* history: mint -> what the new-coin scan's existence check first found
  wasMigrated, \* history: the mints storage has ever marked is_migrated
  resolve,     \* processCoin: position and locals of the identity resolution of one coin
  life,        \* the entry point's timers, flags, connection pool and shutdown progress
  tracker,     \* scanners/wallet-tracker.js: the fields of the WalletTracker singleton, its
               \* socket and its pending reconnect timers
  pager,       \* utils/pumpfun-api.js: one call of a paginated fetch loop, its argument
               \* and locals
  ledger,      \* a coins table with every column the write paths set, as a sequence of rows
  rc,          \* two concurrent Recompute calls for one creator: position and locals
  bulk,  \* bulkUpsertCoins: position, locals and transaction of the call in progress
  scanner,  \* scanNewCoins calls that overlap: positions, locals, and the passes to processAndSaveCoin
  rt   \* realtime-creator.js under any sequence of start and stop calls: flag, scanInterval, timers

social == <<creators, creatorCoins, processedMints, sscan>>

\* the state outside the two ingestion pipelines
ext == <<resolve, life, tracker, pager, ledger, rc, bulk, scanner, rt>>

vars == <<feed, developers, coins, migrations, alerts, phase, restarts, bf, ud,
          seenCoins, nscan, mscan, creators, creatorCoins, processedMints, sscan,
          observed, wasMigrated, resolve, life, tracker, pager,
          ledger, rc,
          bulk,
          scanner,
          rt>>

\* ------------------------------------------------------ upstream feed
\* coin.creator and coin.created_timestamp of the upstream record of a mint
CreatorOf(m) == feed.creator[m]
Created(m) == m

\* the twitter handle identifyCreator resolves for the tweet or community of a mint
HandleOf(m) == IF feed.creator[m] = "A" THEN "x" ELSE "y"

RECURSIVE DescSeq(_)
DescSeq(S) ==
  IF S = {} THEN <<>>
  ELSE LET x == CHOOSE y \in S : \A z \in S : z <= y
       IN <<x>> \o DescSeq(S \ {x})

CoinRec(m) == [mint |-> m, complete |-> (feed.status[m] = "complete")]

Listing(S) == [i \in 1..Cardinality(S) |-> CoinRec(DescSeq(S)[i])]

\* fetchCoins({offset, limit, complete}): one page of the listing, newest first
fetchCoins(offset, limit, complete) ==
  LET S == IF complete THEN {m \in Mints : feed.status[m] = "complete"}
                       ELSE {m \in Mints : feed.status[m] # "none"}
      all == Listing(S)
  IN SubSeq(all, offset + 1, Min(offset + limit, Len(all)))

fetchRecentCoins(limit) == fetchCoins(0, limit, FALSE)
fetchRecentMigratedCoins(limit) == fetchCoins(0, limit, TRUE)

\* fetchUserCoins(address, {offset, limit})
fetchUserCoins(address, offset, limit) ==
  LET all == Listing({m \in Mints : feed.status[m] # "none" /\ CreatorOf(m) = address})
  IN SubSeq(all, offset + 1, Min(offset + limit, Len(all)))

\* fetchAllUserCoins(address): the first page is short (fewer than `limit`
\* records) for every creator of the model, so the loop ends after it
fetchAllUserCoins(address) == fetchUserCoins(address, 0, UserLimit)

\* ------------------------------------------------------------- store
\* an upsert whose ON CONFLICT clause leaves migration_rate out
upsertDeveloperKeepRate(tbl, d) ==
  [a \in DOMAIN tbl \cup {d.address} |->
     IF a # d.address THEN tbl[a]
     ELSE [total_coins |-> d.totalCoins,
           migration_count |-> d.migrationCount,
           migration_rate |-> IF a \in DOMAIN tbl THEN tbl[a].migration_rate
                              ELSE d.migrationRate,
           last_migrated_coin_mint |-> d.lastMigratedCoin]]

\* upsertDeveloper(developer): INSERT ... ON CONFLICT (address) DO UPDATE SET every statistic
upsertDeveloper(tbl, d) ==
  LET row == [total_coins |-> d.totalCoins,
              migration_count |-> d.migrationCount,
              migration_rate |-> d.migrationRate,
              last_migrated_coin_mint |-> d.lastMigratedCoin]
  IN [a \in DOMAIN tbl \cup {d.address} |-> IF a = d.address THEN row ELSE tbl[a]]

\* FOREIGN KEY (creator_address) REFERENCES developers(address)
CoinForeignKeyHolds(devs, rec) == CreatorOf(rec.mint) \in DOMAIN devs

\* upsertCoin(coin): INSERT ... ON CONFLICT (mint) DO UPDATE SET is_migrated,
\* migrated_at, market_cap = EXCLUDED.*
upsertCoin(tbl, rec) ==
  LET is_migrated == rec.complete
      migrated_at == IF rec.complete THEN Created(rec.mint) ELSE NULL
  IN IF rec.mint \in DOMAIN tbl
     THEN [tbl EXCEPT ![rec.mint].is_migrated = is_migrated,
                      ![rec.mint].migrated_at = migrated_at]
     ELSE [m \in DOMAIN tbl \cup {rec.mint} |->
             IF m = rec.mint
             THEN [creator_address |-> CreatorOf(rec.mint),
                   created_timestamp |-> Created(rec.mint),
                   is_migrated |-> is_migrated,
                   migrated_at |-> migrated_at]
             ELSE tbl[m]]

\* a lookup that finds no row
getCoinByMintMiss(tbl, mint) == <<>>

\* getCoinByMint(mint): result.rows, of which the caller takes rows[0] || null
getCoinByMint(tbl, mint) == IF mint \in DOMAIN tbl THEN <<tbl[mint]>> ELSE <<>>

\* history: the mints ever marked, after a write that leaves the coins table `tbl`
Marked(was, tbl) == was \cup {m \in DOMAIN tbl : tbl[m].is_migrated}

\* insertMigration(coinMint, developerAddress, migratedAt): ON CONFLICT DO NOTHING,
\* and the table has no unique constraint but its serial id, so no insert conflicts
insertMigration(tbl, mint) == [tbl EXCEPT ![mint] = @ + 1]

\* insertAlert(coinMint, developerAddress, alertData)
insertAlert(tbl, mint, alertData) == [tbl EXCEPT ![mint] = Append(@, alertData)]

\* ------------------------------------------------- developer statistics
\* parseFloat((migrationCount / totalCoins * 100).toFixed(2)), in hundredths of a percent
toFixed2(num, den) == (200 * num + den) \div (2 * den)

migrationRate(migrationCount, totalCoins) ==
  IF totalCoins > 0 THEN toFixed2(migrationCount * 100, totalCoins) ELSE 0

\* the statistics updateDeveloper computes from the fetched coins
developerStats(address, cs) ==
  LET migrated == {i \in 1..Len(cs) : cs[i].complete}
      latest == IF migrated = {} THEN NULL
                ELSE cs[CHOOSE i \in migrated :
                          \A j \in migrated : Created(cs[j].mint) <= Created(cs[i].mint)].mint
  IN [address |-> address,
      totalCoins |-> Len(cs),
      migrationCount |-> Cardinality(migrated),
      migrationRate |-> migrationRate(Cardinality(migrated), Len(cs)),
      lastMigratedCoin |-> latest]

\* --------------------------------------------------------- process state
UdOff == [pc |-> "off", owner |-> "none", address |-> "none", coins |-> <<>>, k |-> 0]
UdCall(owner, address) ==
  [pc |-> "fetch", owner |-> owner, address |-> address, coins |-> <<>>, k |-> 0]

\* pagesFailed: history, the page requests of fetchAllMigratedCoins that threw;
\* feedMoved: history, the upstream listing changed while this backfill was running
BfStart ==
  [pc |-> "fetch", pagesFailed |-> 0, feedMoved |-> FALSE,
   allCoins |-> <<>>, offset |-> 0, addrs |-> <<>>, i |-> 0,
   coinsScanned |-> 0, developersFound |-> {}, migrationsRecorded |-> 0, errors |-> 0]

\* performHistoricalScan returned its stats to main, which drops them
BfReturned == [BfStart EXCEPT !.pc = "done"]

\* `developer` of a scan that has not read one
NoDeveloper == [total_coins |-> 0, migration_count |-> 0, migration_rate |-> 0,
                last_migrated_coin_mint |-> NULL]

\* threw: the call before this one rejected
ScanIdle == [pc |-> "idle", queue |-> <<>>, developer |-> NoDeveloper, threw |-> FALSE]

\* priorMigrated: history, whether storage marked the coin at the head of the queue
\* is_migrated before this scan touched it
MScanIdle == [pc |-> "idle", queue |-> <<>>, developersUpdated |-> {},
              priorMigrated |-> FALSE, threw |-> FALSE]

\* scanNewCoins of social mode; handle: processed.creator.twitterHandle
SScanIdle == [pc |-> "idle", queue |-> <<>>, handle |-> "none", threw |-> FALSE]

\* `creator` of a processCoin call that has identified none
NoCreator == [kind |-> "none", source |-> NULL]

\* no processCoin call under study
ResolveIdle ==
  [pc |-> "idle", fields |-> [i \in 1..MaxFields |->
                               [str |-> FALSE, tweet |-> FALSE, community |-> FALSE,
                                profile |-> FALSE]],
   twitterUrl |-> NULL, type |-> "null", creator |-> NoCreator]

\* the WalletTracker singleton as constructed; index.js never calls its start().
\* pc: start() not called, awaiting its loadDevelopersToTrack, returned. apiKey: the RPC
\* URL of the configuration holds an api-key. sock: the WebSocket connect() created last;
\* ws: this.ws is not null. timers: the delays of the pending reconnect timeouts.
\* subscribed: accountInclude of the last subscription sent on the socket. sinceOpen:
\* history, the connect() calls reconnect timers made since the last 'open'. stopped:
\* history, stop() was called and has returned
TrackerOff ==
  [pc |-> "off", apiKey |-> TRUE, sock |-> "none", ws |-> FALSE, isConnected |-> FALSE,
   reconnectAttempts |-> 0, timers |-> <<>>, trackedWallets |-> {}, subscribed |-> {},
   sinceOpen |-> 0, stopped |-> FALSE]

\* no coins table under study; path: the write path, upsertCoin of db/queries.js
\* ("wallet") or processCoin and saveCoin of services/creator-tracker.js ("social")
LedgerOff == [path |-> "none", table |-> <<>>]

\* no bulkUpsertCoins call under study. coins: its argument; k: the coin of the loop;
\* before: history, the coins table when the call began; work: the table as the
\* statements of the open transaction see it; failed: history, a coin's statement was
\* rejected
BulkOff ==
  [pc |-> "off", coins |-> <<>>, k |-> 0, before |-> <<>>, work |-> <<>>,
   failed |-> FALSE]

\* realtime-creator.js as loaded. isRunning, scanInterval: the module variables (the id
\* of the interval, NULL for null); pending: startRealtimeScanning calls that await their
\* initial scan; timers: the ids of the intervals registered and not cleared; calls: the
\* startRealtimeScanning calls made so far
RtOff == [isRunning |-> FALSE, scanInterval |-> NULL, pending |-> 0, timers |-> {},
          calls |-> 0]

\* the two Recompute calls
Calls == {1, 2}

\* no overlapping scanNewCoins calls under study. scan: call -> position and the newCoins
\* still to process; passed: history, mint -> the calls of processAndSaveCoin with the
\* mint since it was last added to processedMints
ScannerOff ==
  [scan |-> [c \in Calls |-> [pc |-> "idle", queue |-> <<>>]], passed |-> <<>>]

\* no Recompute call under study. address: the wallet address or twitter handle of the
\* call; coin: the coin processAndSaveCoin saves before its updateCreatorStats; coins: the
\* coins the call aggregates (the response of fetchAllUserCoins, or the coins table its
\* UPDATE statement reads)
RcOff == [pc |-> "off", address |-> "none", coin |-> <<>>, coins |-> <<>>, k |-> 0]

\* no paginated fetch under study. fn: the loop, fetchAllMigratedCoins or
\* fetchAllUserCoins; maxCoins: its argument; allCoins: allCoins.length; offsets: history,
\* the offsets requested so far
PagerOff ==
  [pc |-> "off", fn |-> "none", maxCoins |-> 0, allCoins |-> 0, offset |-> 0,
   offsets |-> <<>>]

\* the process as main() starts it. entry: index.js, or one of the two programs
\* index-creator.js holds (CommonJS, ES modules). nTimer, mTimer, sTimer: the interval of
\* startRealtimeMonitor, startMigrationMonitor, startRealtimeScanning is registered.
\* isRunning: the flag of realtime-creator.js; starting: startRealtimeScanning awaits its
\* initial scan. hook: process.stopMonitors, global.appShutdown is assigned. pool: the
\* pg pool. shutdown: progress of shutdown(signal). stopped: history, the stop functions
\* of the loops were called
LifeStart(entry) ==
  [entry |-> entry, nTimer |-> FALSE, mTimer |-> FALSE, sTimer |-> FALSE,
   isRunning |-> entry # "index", starting |-> entry # "index", hook |-> FALSE,
   pool |-> "open", shutdown |-> "none", stopped |-> FALSE]

\* startRealtimeScanning left without its setInterval
startRealtimeScanningAbandoned(l) == [l EXCEPT !.starting = FALSE]

\* the initial scan awaited by startRealtimeScanning has returned: setInterval, return to
\* main, which (CommonJS program) assigns global.appShutdown
scanNewCoinsReturned(l) ==
  IF l.starting
  THEN [l EXCEPT !.starting = FALSE, !.sTimer = TRUE, !.hook = (l.entry = "creator-cjs")]
  ELSE l

Init ==
  /\ feed \in [status : [Mints -> {"none", "live", "complete"}],
                creator : [Mints -> Addrs]]
  /\ \A m \in Mints :
       feed.status[m] # "none" => \A x \in Mints : x < m => feed.status[x] # "none"
  /\ feed.creator[1] = "A"
  /\ developers = <<>>
  /\ coins = <<>>
  /\ migrations = [m \in Mints |-> 0]
  /\ alerts = [m \in Mints |-> <<>>]
  /\ phase \in {"backfill", "scanning"}
  /\ restarts = 0
  /\ bf = BfStart
  /\ ud = UdOff
  /\ seenCoins = {}
  /\ nscan = [s \in Slots |-> ScanIdle]
  /\ mscan = MScanIdle
  /\ creators = <<>>
  /\ creatorCoins = <<>>
  /\ processedMints = <<>>
  /\ sscan = IF phase = "scanning" THEN [SScanIdle EXCEPT !.pc = "fetch"] ELSE SScanIdle
  /\ observed = [m \in Mints |-> "no"]
  /\ wasMigrated = {}
  /\ resolve = ResolveIdle
  /\ life \in {LifeStart(e) : e \in IF phase = "backfill" THEN {"index"}
                                     ELSE {"creator-cjs", "creator-esm"}}
  /\ tracker = TrackerOff
  /\ pager = PagerOff
  /\ ledger = LedgerOff
  /\ rc = [c \in Calls |-> RcOff]
  /\ bulk = BulkOff
  /\ scanner = ScannerOff
  /\ rt = RtOff

\* ----------------------------------------------------------- environment
\* a coin is created on the platform (created_timestamp follows the mint order)
Launch(m) ==
  /\ feed.status[m] = "none"
  /\ \A x \in Mints : x < m => feed.status[x] # "none"
  /\ feed' = [feed EXCEPT !.status[m] = "live"]
  /\ bf' = IF phase = "backfill" THEN [bf EXCEPT !.feedMoved = TRUE] ELSE bf
  /\ UNCHANGED <<social, observed, wasMigrated, developers, coins, migrations, alerts, phase, restarts, ud,
                 seenCoins, nscan, mscan>>
  /\ UNCHANGED ext

\* a coin migrates on the platform (complete becomes true, for good)
Complete(m) ==
  /\ feed.status[m] = "live"
  /\ feed' = [feed EXCEPT !.status[m] = "complete"]
  /\ bf' = IF phase = "backfill" THEN [bf EXCEPT !.feedMoved = TRUE] ELSE bf
  /\ UNCHANGED <<social, observed, wasMigrated, developers, coins, migrations, alerts, phase, restarts, ud,
                 seenCoins, nscan, mscan>>
  /\ UNCHANGED ext

\* ------------------------------------------------------ polling loops
RECURSIVE SkipSeen(_, _)
\* the head of the for loop: `if (seenCoins.has(coin.mint)) continue`
SkipSeen(q, seen) ==
  IF q # <<>> /\ Head(q).mint \in seen THEN SkipSeen(Tail(q), seen) ELSE q

\* monitorNewCoins at the coins `q` still to visit: suspended at getCoinByMint of the
\* first unseen coin, or returned
NScanAt(q, seen) ==
  LET r == SkipSeen(q, seen)
  IN IF r = <<>> THEN ScanIdle
     ELSE [pc |-> "check", queue |-> r, developer |-> NoDeveloper, threw |-> FALSE]

\* monitorMigrations at the coins `q` still to visit: suspended at upsertCoin, or returned
MScanAt(q, updated) ==
  IF q = <<>> THEN MScanIdle
  ELSE [pc |-> "upsert", queue |-> q, developersUpdated |-> updated,
        priorMigrated |-> FALSE, threw |-> FALSE]

\* startRealtimeMonitor() and startMigrationMonitor(): each calls its scan once, which
\* runs to its first await (the feed request), and registers its interval
StartMonitors ==
  /\ phase' = "monitor"
  /\ nscan' = [nscan EXCEPT ![1] = [ScanIdle EXCEPT !.pc = "fetch"]]
  /\ mscan' = [MScanIdle EXCEPT !.pc = "fetch"]
  /\ life' = [life EXCEPT !.nTimer = TRUE, !.mTimer = TRUE, !.hook = TRUE]

\* ---------------------------------------------------- updateDeveloper
\* what follows `await updateDeveloper(address)` in its caller; threw: the call threw
UdReturn(threw) ==
  IF ud.owner = "bf"
  THEN LET b == IF threw THEN [bf EXCEPT !.errors = @ + 1]
                ELSE [bf EXCEPT !.developersFound = @ \cup {ud.address}]
       IN IF bf.i < Len(bf.addrs)
          THEN /\ bf' = [b EXCEPT !.i = @ + 1]
               /\ ud' = UdCall("bf", bf.addrs[bf.i + 1])
               /\ UNCHANGED <<phase, nscan, mscan, life, bulk, scanner, rt>>
          ELSE /\ bf' = BfReturned
               /\ ud' = UdOff
               /\ StartMonitors
  ELSE /\ mscan' = MScanAt(Tail(mscan.queue),
                           IF threw THEN mscan.developersUpdated
                           ELSE mscan.developersUpdated \cup {ud.address})
       /\ ud' = UdOff
       /\ UNCHANGED <<bf, phase, nscan, life, bulk, scanner, rt>>

\* `const coins = await fetchAllUserCoins(address)`, the statistics, and the call of
\* upsertDeveloper; no coins: return null
UdFetch ==
  /\ phase # "exited"
  /\ ud.pc = "fetch"
  /\ LET cs == fetchAllUserCoins(ud.address)
     IN IF Len(cs) = 0
        THEN UdReturn(FALSE)
        ELSE /\ ud' = [ud EXCEPT !.pc = "dev", !.coins = cs]
             /\ UNCHANGED <<bf, phase, nscan, mscan, life, bulk, scanner, rt>>
  /\ UNCHANGED <<social, observed, wasMigrated, feed, developers, coins, migrations, alerts, restarts, seenCoins>>
  /\ UNCHANGED <<resolve, tracker, pager, ledger, rc, bulk, scanner, rt>>

\* the request of fetchUserCoins throws (network error, a status that is neither ok nor
\* 404): updateDeveloper logs and rethrows to its caller's catch
UdFetchThrows ==
  /\ phase # "exited"
  /\ ud.pc = "fetch"
  /\ UdReturn(TRUE)
  /\ UNCHANGED <<social, observed, wasMigrated, feed, developers, coins, migrations, alerts, restarts,
                 seenCoins>>
  /\ UNCHANGED <<resolve, tracker, pager, ledger, rc, bulk, scanner, rt>>

\* `await upsertDeveloper(developer)`
UdUpsertDeveloper ==
  /\ phase # "exited"
  /\ ud.pc = "dev"
  /\ developers' = upsertDeveloper(developers, developerStats(ud.address, ud.coins))
  /\ ud' = [ud EXCEPT !.pc = "coins", !.k = 1]
  /\ UNCHANGED <<social, observed, wasMigrated, feed, coins, migrations, alerts, phase, restarts, bf, seenCoins,
                 nscan, mscan>>
  /\ UNCHANGED ext

\* `for (const coin of coins) await upsertCoin(coin)`, then return savedDeveloper
UdUpsertCoin ==
  /\ phase # "exited"
  /\ ud.pc = "coins"
  /\ IF CoinForeignKeyHolds(developers, ud.coins[ud.k])
     THEN /\ coins' = upsertCoin(coins, ud.coins[ud.k])
          /\ IF ud.k < Len(ud.coins)
             THEN /\ ud' = [ud EXCEPT !.k = @ + 1]
                  /\ UNCHANGED <<bf, phase, nscan, mscan, life, bulk, scanner, rt>>
             ELSE UdReturn(FALSE)
     ELSE /\ UNCHANGED coins
          /\ UdReturn(TRUE)
  /\ UNCHANGED <<social, observed, feed, developers, migrations, alerts, restarts, seenCoins>>
  /\ wasMigrated' = Marked(wasMigrated, coins')
  /\ UNCHANGED <<resolve, tracker, pager, ledger, rc, bulk, scanner, rt>>

\* ------------------------------------------------ performHistoricalScan
RECURSIVE Unique(_, _)
\* [...new Set(migratedCoins.map(coin => coin.creator))]: insertion order
Unique(cs, have) ==
  IF cs = <<>> THEN <<>>
  ELSE IF CreatorOf(Head(cs).mint) \in have THEN Unique(Tail(cs), have)
  ELSE <<CreatorOf(Head(cs).mint)>> \o Unique(Tail(cs), have \cup {CreatorOf(Head(cs).mint)})

\* Step 5, reached with every coin stored: the first updateDeveloper call, or the end
BfEnterUpdate(b) ==
  IF b.addrs = <<>>
  THEN /\ bf' = BfReturned
       /\ ud' = UdOff
       /\ StartMonitors
  ELSE /\ bf' = [b EXCEPT !.pc = "update", !.i = 1]
       /\ ud' = UdCall("bf", b.addrs[1])
       /\ UNCHANGED <<phase, nscan, mscan, life, bulk, scanner, rt>>

\* Step 4 at the next coin, or Step 5
BfNextCoin(b) ==
  IF b.i < Len(b.allCoins)
  THEN /\ bf' = [b EXCEPT !.pc = "storeCoin", !.i = @ + 1]
       /\ UNCHANGED <<ud, phase, nscan, mscan, life, bulk, scanner, rt>>
  ELSE BfEnterUpdate(b)

\* Steps 1 and 2 once fetchAllMigratedCoins returned `all`, up to the first store call
BfFetched(all) ==
  LET b == [bf EXCEPT !.allCoins = all, !.coinsScanned = Len(all),
                      !.addrs = Unique(all, {})]
  IN IF b.addrs # <<>>
     THEN /\ bf' = [b EXCEPT !.pc = "precreate", !.i = 1]
          /\ UNCHANGED <<ud, phase, nscan, mscan, life, bulk, scanner, rt>>
     ELSE BfEnterUpdate(b)

\* fetchAllMigratedCoins: `await fetchCoins({offset, limit, complete: true})` returns a page
BfFetchPage ==
  /\ phase = "backfill"
  /\ bf.pc = "fetch"
  /\ LET page == fetchCoins(bf.offset, PageLimit, TRUE)
         all == bf.allCoins \o page
     IN IF Len(page) = 0 \/ Len(page) < PageLimit \/ ~(Len(all) < HistoricalLimit)
        THEN BfFetched(all)
        ELSE /\ bf' = [bf EXCEPT !.allCoins = all, !.offset = @ + PageLimit]
             /\ UNCHANGED <<ud, phase, nscan, mscan, life, bulk, scanner, rt>>
  /\ UNCHANGED <<social, observed, wasMigrated, feed, developers, coins, migrations, alerts, restarts, seenCoins>>
  /\ UNCHANGED <<resolve, tracker, pager, ledger, rc, bulk, scanner, rt>>

\* a main() that logs the error of performHistoricalScan and goes on to Step 4
BfFetchThrowsContinues ==
  /\ phase = "backfill"
  /\ bf.pc = "fetch"
  /\ bf' = [bf EXCEPT !.pc = "thrown", !.pagesFailed = @ + 1]
  /\ StartMonitors
  /\ UNCHANGED <<social, observed, wasMigrated, feed, developers, coins, migrations, alerts, restarts, ud, seenCoins>>
  /\ UNCHANGED <<resolve, tracker, pager, ledger, rc, bulk, scanner, rt>>

\* fetchAllMigratedCoins: the request of a page throws; nothing catches it before
\* performHistoricalScan's outer catch, which rethrows to main's catch: process.exit(1)
BfFetchThrows ==
  /\ phase = "backfill"
  /\ bf.pc = "fetch"
  /\ bf' = [bf EXCEPT !.pc = "thrown", !.pagesFailed = @ + 1]
  /\ phase' = "exited"
  /\ UNCHANGED <<social, observed, wasMigrated, feed, developers, coins, migrations, alerts, restarts, ud, seenCoins,
                 nscan, mscan>>
  /\ UNCHANGED ext

\* Step 3: `await upsertDeveloper({address, totalCoins: 0, migrationCount: 0, migrationRate: 0})`
BfPrecreate ==
  /\ phase = "backfill"
  /\ bf.pc = "precreate"
  /\ developers' = upsertDeveloper(developers,
                     [address |-> bf.addrs[bf.i], totalCoins |-> 0, migrationCount |-> 0,
                      migrationRate |-> 0, lastMigratedCoin |-> NULL])
  /\ IF bf.i < Len(bf.addrs)
     THEN /\ bf' = [bf EXCEPT !.i = @ + 1]
          /\ UNCHANGED <<ud, phase, nscan, mscan, life, bulk, scanner, rt>>
     ELSE /\ bf' = [bf EXCEPT !.pc = "storeCoin", !.i = 1]
          /\ UNCHANGED <<ud, phase, nscan, mscan, life, bulk, scanner, rt>>
  /\ UNCHANGED <<social, observed, wasMigrated, feed, coins, migrations, alerts, restarts, seenCoins>>
  /\ UNCHANGED <<resolve, tracker, pager, ledger, rc, bulk, scanner, rt>>

\* Step 4: `await upsertCoin(coin)`
BfStoreCoin ==
  /\ phase = "backfill"
  /\ bf.pc = "storeCoin"
  /\ LET coin == bf.allCoins[bf.i]
     IN IF CoinForeignKeyHolds(developers, coin)
        THEN /\ coins' = upsertCoin(coins, coin)
             /\ IF coin.complete
                THEN /\ bf' = [bf EXCEPT !.pc = "storeMig"]
                     /\ UNCHANGED <<ud, phase, nscan, mscan, life, bulk, scanner, rt>>
                ELSE BfNextCoin(bf)
        ELSE /\ UNCHANGED coins
             /\ BfNextCoin([bf EXCEPT !.errors = @ + 1])
  /\ UNCHANGED <<social, observed, feed, developers, migrations, alerts, restarts, seenCoins>>
  /\ wasMigrated' = Marked(wasMigrated, coins')
  /\ UNCHANGED <<resolve, tracker, pager, ledger, rc, bulk, scanner, rt>>

\* Step 4: `await insertMigration(coin.mint, coin.creator, coin.created_timestamp)`
BfStoreMigration ==
  /\ phase = "backfill"
  /\ bf.pc = "storeMig"
  /\ migrations' = insertMigration(migrations, bf.allCoins[bf.i].mint)
  /\ BfNextCoin([bf EXCEPT !.migrationsRecorded = @ + 1])
  /\ UNCHANGED <<social, observed, wasMigrated, feed, developers, coins, alerts, restarts, seenCoins>>
  /\ UNCHANGED <<resolve, tracker, pager, ledger, rc, bulk, scanner, rt>>

\* ------------------------------------------------------ monitorNewCoins
\* the interval of startRealtimeMonitor fires: monitorNewCoins() is called whether or
\* not an earlier call has returned
NTickAt(s) ==
  /\ phase = "monitor"
  /\ nscan[s].pc = "idle"
  /\ \A t \in Slots : t < s => nscan[t].pc # "idle"
  /\ life.nTimer
  /\ nscan' = [nscan EXCEPT ![s].pc = "fetch"]
  /\ UNCHANGED <<social, observed, wasMigrated, feed, developers, coins, migrations, alerts, phase, restarts, bf, ud,
                 seenCoins, mscan>>
  /\ UNCHANGED ext

\* the interval fires after the earlier calls have returned
NTick == NTickAt(1)

\* the interval fires while an earlier call is suspended at an await
NTickOverlap == \E s \in Slots : s > 1 /\ NTickAt(s)

\* `const recentCoins = await fetchRecentCoins(100)`, then the loop up to its first await
NFetch(s) ==
  /\ phase = "monitor"
  /\ nscan[s].pc = "fetch"
  /\ nscan' = [nscan EXCEPT ![s] = NScanAt(fetchRecentCoins(RecentLimit), seenCoins)]
  /\ UNCHANGED <<social, observed, wasMigrated, feed, developers, coins, migrations, alerts, phase, restarts, bf, ud,
                 seenCoins, mscan>>
  /\ UNCHANGED ext

\* the migration_count storage holds for `address`, 0 without a record
StoredMigrations(address) ==
  IF address \in DOMAIN developers THEN developers[address].migration_count ELSE 0

\* history: the existence check found `mint` absent from storage; "hot" once its creator
\* had a stored record with migration_count > 0 at such a moment, "cold" otherwise
Observe(mint) ==
  [observed EXCEPT ![mint] =
     IF @ = "hot" \/ StoredMigrations(CreatorOf(mint)) > 0 THEN "hot" ELSE "cold"]

\* `const existingCoin = await getCoinByMint(coin.mint)`; seenCoins.add either way
NCheck(s) ==
  /\ phase = "monitor"
  /\ nscan[s].pc = "check"
  /\ LET coin == Head(nscan[s].queue)
         existingCoin == getCoinByMint(coins, coin.mint)
     IN /\ seenCoins' = seenCoins \cup {coin.mint}
        /\ IF existingCoin # <<>>
           THEN /\ nscan' = [nscan EXCEPT ![s] = NScanAt(Tail(nscan[s].queue), seenCoins')]
                /\ UNCHANGED observed
           ELSE /\ nscan' = [nscan EXCEPT ![s].pc = "upsert"]
                /\ observed' = IF coin.mint \in DOMAIN coins THEN observed
                               ELSE Observe(coin.mint)
  /\ UNCHANGED <<social, wasMigrated, feed, developers, coins, migrations, alerts, phase,
                 restarts, bf, ud, mscan>>
  /\ UNCHANGED ext

\* `await upsertCoin(coin)`; a foreign-key error is caught by the loop body's catch
NUpsert(s) ==
  /\ phase = "monitor"
  /\ nscan[s].pc = "upsert"
  /\ LET coin == Head(nscan[s].queue)
     IN IF CoinForeignKeyHolds(developers, coin)
        THEN /\ coins' = upsertCoin(coins, coin)
             /\ nscan' = [nscan EXCEPT ![s].pc = "getdev"]
        ELSE /\ UNCHANGED coins
             /\ nscan' = [nscan EXCEPT ![s] = NScanAt(Tail(nscan[s].queue), seenCoins)]
  /\ UNCHANGED <<social, observed, feed, developers, migrations, alerts, phase, restarts, bf, ud,
                 seenCoins, mscan>>
  /\ wasMigrated' = Marked(wasMigrated, coins')
  /\ UNCHANGED ext

\* an alert predicate that asks for a record and not for its migration_count
AlertPredicateAnyRecord(devs, address) == address \in DOMAIN devs

\* `if (developer && developer.migration_count > 0)`
AlertPredicate(devs, address) ==
  address \in DOMAIN devs /\ devs[address].migration_count > 0

\* `const developer = await getDeveloperByAddress(coin.creator)` and the alert predicate
NGetDeveloper(s) ==
  /\ phase = "monitor"
  /\ nscan[s].pc = "getdev"
  /\ LET coin == Head(nscan[s].queue)
     IN IF AlertPredicate(developers, CreatorOf(coin.mint))
        THEN nscan' = [nscan EXCEPT ![s].pc = "alert",
                                    ![s].developer = developers[CreatorOf(coin.mint)]]
        ELSE nscan' = [nscan EXCEPT ![s] = NScanAt(Tail(nscan[s].queue), seenCoins)]
  /\ UNCHANGED <<social, observed, wasMigrated, feed, developers, coins, migrations, alerts, phase, restarts, bf, ud,
                 seenCoins, mscan>>
  /\ UNCHANGED ext

\* alertData built from the row storage holds when the alert is inserted
AlertDataStoredNow(coin, developer) ==
  LET now == developers[CreatorOf(coin.mint)]
  IN [coinMint |-> coin.mint,
      developerAddress |-> CreatorOf(coin.mint),
      developerMigrations |-> now.migration_count,
      developerMigrationRate |-> now.migration_rate,
      developerTotalCoins |-> now.total_coins,
      developerLastMigrated |-> now.last_migrated_coin_mint]

\* alertData of monitorNewCoins, from the developer row it read; the row's
\* last_migrated_coin_symbol and last_migrated_timestamp are those of one coin, its
\* last_migrated_coin_mint
AlertData(coin, developer) ==
  [coinMint |-> coin.mint,
   developerAddress |-> CreatorOf(coin.mint),
   developerMigrations |-> developer.migration_count,
   developerMigrationRate |-> developer.migration_rate,
   developerTotalCoins |-> developer.total_coins,
   developerLastMigrated |-> developer.last_migrated_coin_mint]

\* `await insertAlert(coin.mint, coin.creator, alertData)`
NAlert(s) ==
  /\ phase = "monitor"
  /\ nscan[s].pc = "alert"
  /\ LET coin == Head(nscan[s].queue)
     IN alerts' = insertAlert(alerts, coin.mint, AlertData(coin, nscan[s].developer))
  /\ nscan' = [nscan EXCEPT ![s] = NScanAt(Tail(nscan[s].queue), seenCoins)]
  /\ UNCHANGED <<social, observed, wasMigrated, feed, developers, coins, migrations, phase, restarts, bf, ud,
                 seenCoins, mscan>>
  /\ UNCHANGED ext

\* ---------------------------------------------------- monitorMigrations
\* the interval of startMigrationMonitor fires
MTick ==
  /\ phase = "monitor"
  /\ mscan.pc = "idle"
  /\ life.mTimer
  /\ mscan' = [mscan EXCEPT !.pc = "fetch"]
  /\ UNCHANGED <<social, observed, wasMigrated, feed, developers, coins, migrations, alerts, phase, restarts, bf, ud,
                 seenCoins, nscan>>
  /\ UNCHANGED ext

\* `const recentMigrated = await fetchRecentMigratedCoins(50)`
MFetch ==
  /\ phase = "monitor"
  /\ mscan.pc = "fetch"
  /\ mscan' = MScanAt(fetchRecentMigratedCoins(RecentMigratedLimit), {})
  /\ UNCHANGED <<social, observed, wasMigrated, feed, developers, coins, migrations, alerts, phase, restarts, bf, ud,
                 seenCoins, nscan>>
  /\ UNCHANGED ext

\* `await upsertCoin(coin)`; a foreign-key error is caught by the loop body's catch
MUpsert ==
  /\ phase = "monitor"
  /\ mscan.pc = "upsert"
  /\ LET coin == Head(mscan.queue)
     IN IF CoinForeignKeyHolds(developers, coin)
        THEN /\ coins' = upsertCoin(coins, coin)
             /\ mscan' = [mscan EXCEPT !.pc = "check",
                                       !.priorMigrated = coin.mint \in DOMAIN coins
                                                         /\ coins[coin.mint].is_migrated]
        ELSE /\ UNCHANGED coins
             /\ mscan' = MScanAt(Tail(mscan.queue), mscan.developersUpdated)
  /\ UNCHANGED <<social, observed, feed, developers, migrations, alerts, phase, restarts, bf, ud,
                 seenCoins, nscan>>
  /\ wasMigrated' = Marked(wasMigrated, coins')
  /\ UNCHANGED ext

\* `const existingCoin = await getCoinByMint(coin.mint)`;
\* `if (existingCoin && existingCoin.is_migrated) continue`
MCheck ==
  /\ phase = "monitor"
  /\ mscan.pc = "check"
  /\ LET coin == Head(mscan.queue)
         existingCoin == getCoinByMint(coins, coin.mint)
     IN IF existingCoin # <<>> /\ existingCoin[1].is_migrated
        THEN mscan' = MScanAt(Tail(mscan.queue), mscan.developersUpdated)
        ELSE mscan' = [mscan EXCEPT !.pc = "insmig"]
  /\ UNCHANGED <<social, observed, wasMigrated, feed, developers, coins, migrations, alerts, phase, restarts, bf, ud,
                 seenCoins, nscan>>
  /\ UNCHANGED ext

\* `await insertMigration(...)`, then the call of updateDeveloper(coin.creator)
MInsertMigration ==
  /\ phase = "monitor"
  /\ mscan.pc = "insmig"
  /\ LET coin == Head(mscan.queue)
     IN /\ migrations' = insertMigration(migrations, coin.mint)
        /\ ud' = UdCall("ms", CreatorOf(coin.mint))
  /\ mscan' = [mscan EXCEPT !.pc = "ud"]
  /\ UNCHANGED <<social, observed, wasMigrated, feed, developers, coins, alerts, phase, restarts, bf, seenCoins, nscan>>
  /\ UNCHANGED ext

\* ------------------------------------------------- social mode: store
\* saveCreator(creatorData): INSERT ... ON CONFLICT (twitter_handle) DO UPDATE SET the
\* profile fields; a new row takes the column defaults of its statistics
saveCreator(tbl, handle) ==
  IF handle \in DOMAIN tbl THEN tbl
  ELSE [h \in DOMAIN tbl \cup {handle} |->
          IF h = handle
          THEN [total_coins |-> 0, migrated_coins |-> 0, success_rate |-> 0,
                last_coin_mint |-> NULL]
          ELSE tbl[h]]

\* saveCoin(coinData): INSERT ... ON CONFLICT (mint) DO UPDATE SET is_migrated,
\* migrated_at, market_cap, metadata = EXCLUDED.*
saveCoin(tbl, rec, handle) ==
  IF rec.mint \in DOMAIN tbl
  THEN [tbl EXCEPT ![rec.mint].is_migrated = rec.complete]
  ELSE [m \in DOMAIN tbl \cup {rec.mint} |->
          IF m = rec.mint
          THEN [creator_twitter_handle |-> handle,
                created_timestamp |-> Created(rec.mint),
                is_migrated |-> rec.complete]
          ELSE tbl[m]]

\* ROUND((COUNT(*) FILTER (WHERE is_migrated = true)::DECIMAL / COUNT(*)) * 100, 2), in
\* hundredths of a percent
ROUND2(migrated, total) == (20000 * migrated + total) \div (2 * total)

\* updateCreatorStats(twitterHandle): one UPDATE whose subqueries read the coins table
updateCreatorStats(crs, cns, handle) ==
  LET own == {m \in DOMAIN cns : cns[m].creator_twitter_handle = handle}
      mig == {m \in own : cns[m].is_migrated}
      last == IF own = {} THEN NULL
              ELSE CHOOSE m \in own :
                     \A x \in own : cns[x].created_timestamp <= cns[m].created_timestamp
  IN IF handle \notin DOMAIN crs THEN crs
     ELSE [crs EXCEPT ![handle] =
             [total_coins |-> Cardinality(own),
              migrated_coins |-> Cardinality(mig),
              success_rate |-> IF Cardinality(own) = 0 THEN 0
                               ELSE ROUND2(Cardinality(mig), Cardinality(own)),
              last_coin_mint |-> last]]

\* -------------------------------------------------- social mode: scanner
\* a filter that leaves the insertion into processedMints to a later step
FilterNewWithoutAdd(cs, processed) ==
  [newCoins |-> SelectSeq(cs, LAMBDA coin :
                             ~\E i \in 1..Len(processed) : processed[i] = coin.mint),
   processed |-> processed]

RECURSIVE FilterNew(_, _)
\* coins.filter(coin => !processedMints.has(coin.mint)), adding each new mint to the set
FilterNew(cs, processed) ==
  IF cs = <<>> THEN [newCoins |-> <<>>, processed |-> processed]
  ELSE IF \E i \in 1..Len(processed) : processed[i] = Head(cs).mint
       THEN FilterNew(Tail(cs), processed)
       ELSE LET r == FilterNew(Tail(cs), Append(processed, Head(cs).mint))
            IN [newCoins |-> <<Head(cs)>> \o r.newCoins, processed |-> r.processed]

\* `processedMints = new Set(Array.from(processedMints).slice(-1000))` past 1000 entries
TrimProcessed(processed) ==
  IF Len(processed) > ProcessedKeep
  THEN SubSeq(processed, Len(processed) - ProcessedKeep + 1, Len(processed))
  ELSE processed

\* the for loop of scanNewCoins at the coins `q` still to process, or the end of the scan
SScanNext(q) ==
  IF q = <<>>
  THEN /\ sscan' = SScanIdle
       /\ processedMints' = TrimProcessed(processedMints)
       /\ life' = scanNewCoinsReturned(life)
  ELSE /\ sscan' = [pc |-> "process", queue |-> q, handle |-> "none", threw |-> FALSE]
       /\ UNCHANGED <<processedMints, life, bulk, scanner, rt>>

\* the interval of startRealtimeScanning fires: `if (isRunning) await scanNewCoins()`
STick ==
  /\ phase = "scanning"
  /\ sscan.pc = "idle"
  /\ life.sTimer
  /\ life.isRunning
  /\ sscan' = [sscan EXCEPT !.pc = "fetch"]
  /\ UNCHANGED <<feed, developers, coins, migrations, alerts, phase, restarts, bf, ud,
                 seenCoins, nscan, mscan, creators, creatorCoins, processedMints,
                 observed, wasMigrated>>
  /\ UNCHANGED ext

\* `const coins = await fetchRecentCoins(BATCH_SIZE)` and the filter; nothing fetched or
\* nothing new: return
SFetch ==
  /\ phase = "scanning"
  /\ sscan.pc = "fetch"
  /\ LET r == FilterNew(fetchRecentCoins(BATCH_SIZE), processedMints)
     IN /\ processedMints' = r.processed
        /\ sscan' = IF r.newCoins = <<>> THEN SScanIdle
                    ELSE [pc |-> "process", queue |-> r.newCoins, handle |-> "none",
                          threw |-> FALSE]
        /\ life' = IF r.newCoins = <<>> THEN scanNewCoinsReturned(life) ELSE life
  /\ UNCHANGED <<feed, developers, coins, migrations, alerts, phase, restarts, bf, ud,
                 seenCoins, nscan, mscan, creators, creatorCoins, observed, wasMigrated>>
  /\ UNCHANGED <<resolve, tracker, pager, ledger, rc, bulk, scanner, rt>>

\* `const processed = await processCoin(coin)`: the three lookups resolve the creator, or
\* one of them finds nothing or throws and processCoin returns null, on which
\* processAndSaveCoin returns {success: false} and the loop sleeps and goes on
SProcess ==
  /\ phase = "scanning"
  /\ sscan.pc = "process"
  /\ \E resolved \in BOOLEAN :
       IF resolved
       THEN /\ sscan' = [sscan EXCEPT !.pc = "saveCreator",
                                      !.handle = HandleOf(Head(sscan.queue).mint)]
            /\ UNCHANGED <<processedMints, life, bulk, scanner, rt>>
       ELSE SScanNext(Tail(sscan.queue))
  /\ UNCHANGED <<feed, developers, coins, migrations, alerts, phase, restarts, bf, ud,
                 seenCoins, nscan, mscan, creators, creatorCoins, observed, wasMigrated>>
  /\ UNCHANGED <<resolve, tracker, pager, ledger, rc, bulk, scanner, rt>>

\* `await saveCreator(processed.creator)`
SSaveCreator ==
  /\ phase = "scanning"
  /\ sscan.pc = "saveCreator"
  /\ creators' = saveCreator(creators, sscan.handle)
  /\ sscan' = [sscan EXCEPT !.pc = "saveCoin"]
  /\ UNCHANGED <<feed, developers, coins, migrations, alerts, phase, restarts, bf, ud,
                 seenCoins, nscan, mscan, creatorCoins, processedMints, observed, wasMigrated>>
  /\ UNCHANGED ext

\* `await saveCoin({...processed.coin, creatorTwitterHandle})`
SSaveCoin ==
  /\ phase = "scanning"
  /\ sscan.pc = "saveCoin"
  /\ creatorCoins' = saveCoin(creatorCoins, Head(sscan.queue), sscan.handle)
  /\ wasMigrated' = Marked(wasMigrated, creatorCoins')
  /\ sscan' = [sscan EXCEPT !.pc = "stats"]
  /\ UNCHANGED <<feed, developers, coins, migrations, alerts, phase, restarts, bf, ud,
                 seenCoins, nscan, mscan, creators, processedMints, observed>>
  /\ UNCHANGED ext

\* `await updateCreatorStats(processed.creator.twitterHandle)`, the return of
\* processAndSaveCoin and the sleep of the loop
SUpdateCreatorStats ==
  /\ phase = "scanning"
  /\ sscan.pc = "stats"
  /\ creators' = updateCreatorStats(creators, creatorCoins, sscan.handle)
  /\ SScanNext(Tail(sscan.queue))
  /\ UNCHANGED <<feed, developers, coins, migrations, alerts, phase, restarts, bf, ud,
                 seenCoins, nscan, mscan, creatorCoins, observed, wasMigrated>>
  /\ UNCHANGED <<resolve, tracker, pager, ledger, rc, bulk, scanner, rt>>

\* ------------------------------------------ social mode: identity resolution
\* the ingestion pipelines' variables
pipeline == <<feed, developers, coins, migrations, alerts, phase, restarts, bf, ud,
              seenCoins, nscan, mscan, creators, creatorCoins, processedMints, sscan,
              observed, wasMigrated>>

\* an entry of fieldsToCheck: str: it is a non-empty string; tweet, community, profile:
\* which of the three patterns of extractTwitterInfo match it (the patterns are not
\* anchored at the start, so a string may match several)
FieldValues ==
  {f \in [str : BOOLEAN, tweet : BOOLEAN, community : BOOLEAN, profile : BOOLEAN] :
     ~f.str => ~(f.tweet \/ f.community \/ f.profile)}

\* `result` of extractTwitterInfo before the scan; a URL is the position of its field
NoTwitterInfo == [tweetUrl |-> NULL, communityUrl |-> NULL, type |-> "null"]

RECURSIVE ScanFirstWins(_, _, _)
\* a scan in which a tweet URL does not replace a type already found
ScanFirstWins(fields, i, result) ==
  IF i > Len(fields) THEN result
  ELSE LET field == fields[i]
       IN IF ~field.str THEN ScanFirstWins(fields, i + 1, result)
          ELSE IF field.tweet
          THEN [result EXCEPT !.tweetUrl = i,
                              !.type = IF @ = "null" THEN "tweet" ELSE @]
          ELSE LET r1 == IF field.community
                         THEN [result EXCEPT !.communityUrl = i,
                                 !.type = IF @ = "null" THEN "community" ELSE @]
                         ELSE result
                   r2 == IF r1.communityUrl = NULL /\ field.profile
                         THEN [r1 EXCEPT !.communityUrl = i,
                                 !.type = IF @ = "null" THEN "community" ELSE @]
                         ELSE r1
               IN ScanFirstWins(fields, i + 1, r2)

extractTwitterInfoFirstWins(fields) == ScanFirstWins(fields, 1, NoTwitterInfo)

RECURSIVE ScanFields(_, _, _)
\* `for (const field of fieldsToCheck)`: a tweet URL sets the type and breaks; a community
\* URL, and a profile URL while no community URL is held, set the type only if none is set
ScanFields(fields, i, result) ==
  IF i > Len(fields) THEN result
  ELSE LET field == fields[i]
       IN IF ~field.str THEN ScanFields(fields, i + 1, result)
          ELSE IF field.tweet
          THEN [result EXCEPT !.tweetUrl = i, !.type = "tweet"]
          ELSE LET r1 == IF field.community
                         THEN [result EXCEPT !.communityUrl = i,
                                 !.type = IF @ = "null" THEN "community" ELSE @]
                         ELSE result
                   r2 == IF r1.communityUrl = NULL /\ field.profile
                         THEN [r1 EXCEPT !.communityUrl = i,
                                 !.type = IF @ = "null" THEN "community" ELSE @]
                         ELSE r1
               IN ScanFields(fields, i + 1, r2)

\* extractTwitterInfo(metadata)
extractTwitterInfo(fields) == ScanFields(fields, 1, NoTwitterInfo)

\* processCoin returns: null, or the coin with the creator it identified
ProcessCoinReturns(creator) ==
  resolve' = [resolve EXCEPT !.pc = "done", !.creator = creator]

\* `const metadataUri = await getTokenMetadataUri(coin.mint)`: the URI, or null (no
\* account, no tokenMetadata extension, a failed RPC request)
PGetTokenMetadataUri ==
  /\ resolve.pc = "uri"
  /\ \E found \in BOOLEAN :
       IF found THEN resolve' = [resolve EXCEPT !.pc = "info"]
       ELSE ProcessCoinReturns(NoCreator)
  /\ UNCHANGED <<pipeline, life, tracker, pager, ledger, rc, bulk, scanner, rt>>

\* `const twitterInfo = await getTwitterInfoFromUri(metadataUri)`: extractTwitterInfo of
\* the fetched document, or the empty info when the fetch or the parse fails; then
\* `twitterInfo.tweetUrl || twitterInfo.communityUrl` and the call of identifyCreator
PGetTwitterInfoFromUri ==
  /\ resolve.pc = "info"
  /\ \E fetched \in BOOLEAN :
       LET twitterInfo == IF fetched THEN extractTwitterInfo(resolve.fields)
                          ELSE NoTwitterInfo
       IN IF twitterInfo.type = "null" THEN ProcessCoinReturns(NoCreator)
          ELSE resolve' = [resolve EXCEPT
                 !.pc = "identify",
                 !.twitterUrl = IF twitterInfo.tweetUrl # NULL THEN twitterInfo.tweetUrl
                                ELSE twitterInfo.communityUrl,
                 !.type = twitterInfo.type]
  /\ UNCHANGED <<pipeline, life, tracker, pager, ledger, rc, bulk, scanner, rt>>

\* identifyCreator(url, type): the author of the tweet whose id extractTweetId finds in
\* the URL, or the first moderator of the community whose id extractCommunityId finds
\* in it; no id, or a failed lookup, throws
identifyCreator(url, type, fields) ==
  IF type = "tweet" /\ fields[url].tweet THEN [kind |-> "author", source |-> url]
  ELSE IF type = "community" /\ fields[url].community
  THEN [kind |-> "moderator", source |-> url]
  ELSE NoCreator

\* `const creator = await identifyCreator(twitterUrl, twitterInfo.type)`; a throw is
\* caught by processCoin, which returns null
PIdentifyCreator ==
  /\ resolve.pc = "identify"
  /\ \E answered \in BOOLEAN :
       ProcessCoinReturns(IF answered
                          THEN identifyCreator(resolve.twitterUrl, resolve.type,
                                               resolve.fields)
                          ELSE NoCreator)
  /\ UNCHANGED <<pipeline, life, tracker, pager, ledger, rc, bulk, scanner, rt>>

\* ------------------------------------------------------------- process
\* no scan is in flight
Quiescent ==
  /\ \A s \in Slots : nscan[s].pc = "idle"
  /\ mscan.pc = "idle"

\* the process has ended (process.exit(1) of main, or a shutdown between two scans) and
\* index.js is started again: module state starts afresh, the store keeps its rows
Restart ==
  /\ restarts < MaxRestarts
  /\ phase = "exited" \/ (phase = "monitor" /\ Quiescent)
  /\ restarts' = restarts + 1
  /\ phase' = "backfill"
  /\ bf' = BfStart
  /\ ud' = UdOff
  /\ seenCoins' = {}
  /\ nscan' = [s \in Slots |-> ScanIdle]
  /\ mscan' = MScanIdle
  /\ life' = LifeStart("index")
  /\ UNCHANGED <<social, observed, wasMigrated, feed, developers, coins, migrations, alerts>>
  /\ UNCHANGED <<resolve, tracker, pager, ledger, rc, bulk, scanner, rt>>

\* index-creator.js is started again after its process ended: realtime-creator.js starts
\* afresh (processedMints empty), main awaits the initial scan, the store keeps its rows
SRestart ==
  /\ restarts < MaxRestarts
  /\ phase = "scanning"
  /\ sscan.pc = "idle"
  /\ restarts' = restarts + 1
  /\ processedMints' = <<>>
  /\ sscan' = [SScanIdle EXCEPT !.pc = "fetch"]
  /\ UNCHANGED <<feed, developers, coins, migrations, alerts, phase, bf, ud, seenCoins,
                 nscan, mscan, creators, creatorCoins, observed, wasMigrated>>
  /\ life' = LifeStart(life.entry)
  /\ UNCHANGED <<resolve, tracker, pager, ledger, rc, bulk, scanner, rt>>

Next ==
  \/ \E m \in Mints : Launch(m)
  \/ \E m \in Mints : Complete(m)
  \/ BfFetchPage
  \/ BfFetchThrows
  \/ BfPrecreate
  \/ BfStoreCoin
  \/ BfStoreMigration
  \/ UdFetch
  \/ UdFetchThrows
  \/ UdUpsertDeveloper
  \/ UdUpsertCoin
  \/ NTick
  \/ \E s \in Slots : NFetch(s)
  \/ \E s \in Slots : NCheck(s)
  \/ \E s \in Slots : NUpsert(s)
  \/ \E s \in Slots : NGetDeveloper(s)
  \/ \E s \in Slots : NAlert(s)
  \/ MTick
  \/ MFetch
  \/ MUpsert
  \/ MCheck
  \/ MInsertMigration
  \/ Restart
  \/ STick
  \/ SFetch
  \/ SProcess
  \/ SSaveCreator
  \/ SSaveCoin
  \/ SUpdateCreatorStats
  \/ SRestart

\* one new-coin scan at a time: every tick finds the earlier scan returned
Spec == Init /\ [][Next]_vars

\* ticks may also find the earlier new-coin scan suspended at an await
NextOverlap == Next \/ NTickOverlap

SpecOverlap == Init /\ [][NextOverlap]_vars

\* processCoin called for one coin of a scan, over every shape of its metadata fields
InitResolver ==
  /\ feed = [status |-> [m \in Mints |-> IF m = 1 THEN "live" ELSE "none"],
             creator |-> [m \in Mints |-> "A"]]
  /\ developers = <<>>
  /\ coins = <<>>
  /\ migrations = [m \in Mints |-> 0]
  /\ alerts = [m \in Mints |-> <<>>]
  /\ phase = "scanning"
  /\ restarts = 0
  /\ bf = BfStart
  /\ ud = UdOff
  /\ seenCoins = {}
  /\ nscan = [s \in Slots |-> ScanIdle]
  /\ mscan = MScanIdle
  /\ creators = <<>>
  /\ creatorCoins = <<>>
  /\ processedMints = <<1>>
  /\ sscan = [pc |-> "process", queue |-> <<CoinRec(1)>>, handle |-> "none",
              threw |-> FALSE]
  /\ observed = [m \in Mints |-> "no"]
  /\ wasMigrated = {}
  /\ resolve \in {[ResolveIdle EXCEPT !.pc = "uri", !.fields = f] :
                    f \in [1..MaxFields -> FieldValues]}
  /\ life = LifeStart("creator-cjs")
  /\ tracker = TrackerOff
  /\ pager = PagerOff
  /\ ledger = LedgerOff
  /\ rc = [c \in Calls |-> RcOff]
  /\ bulk = BulkOff
  /\ scanner = ScannerOff
  /\ rt = RtOff

NextResolver ==
  \/ PGetTokenMetadataUri
  \/ PGetTwitterInfoFromUri
  \/ PIdentifyCreator

SpecResolver == InitResolver /\ [][NextResolver]_vars

\* ------------------------------------------------------ process lifecycle
\* process.stopMonitors(): the functions startRealtimeMonitor and startMigrationMonitor
\* returned, each clearInterval(intervalId)
stopMonitors(l) == [l EXCEPT !.nTimer = FALSE, !.mTimer = FALSE, !.stopped = TRUE]

\* a stop that clears the interval and leaves the flag
stopRealtimeScanningKeepsFlag(l) == [l EXCEPT !.sTimer = FALSE, !.stopped = TRUE]

\* stopRealtimeScanning(): isRunning = false, and clearInterval(scanInterval) if it is set
stopRealtimeScanning(l) ==
  [l EXCEPT !.isRunning = FALSE, !.sTimer = FALSE, !.stopped = TRUE]

\* `await pool.end()` is called: shutdown is suspended there
PoolEnding(l) == [l EXCEPT !.pool = "ended", !.shutdown = "ending"]

\* SIGINT or SIGTERM: shutdown(signal) up to `await pool.end()`, or up to process.exit(0)
\* when the CommonJS program finds global.appShutdown unassigned
Signal ==
  /\ phase # "exited"
  /\ life.shutdown = "none"
  /\ IF life.entry = "index"
     THEN /\ life' = PoolEnding(IF life.hook THEN stopMonitors(life) ELSE life)
          /\ UNCHANGED phase
     ELSE IF life.entry = "creator-esm" \/ life.hook
     THEN /\ life' = PoolEnding(stopRealtimeScanning(life))
          /\ UNCHANGED phase
     ELSE /\ life' = [life EXCEPT !.shutdown = "done"]
          /\ phase' = "exited"
  /\ UNCHANGED <<social, observed, wasMigrated, feed, developers, coins, migrations, alerts,
                 restarts, bf, ud, seenCoins, nscan, mscan, resolve, tracker, pager, ledger, rc, bulk, scanner, rt>>

\* `await pool.end()` settles: process.exit(0), or process.exit(1) from shutdown's catch
ShutdownExit ==
  /\ phase # "exited"
  /\ life.shutdown = "ending"
  /\ phase' = "exited"
  /\ life' = [life EXCEPT !.shutdown = "done"]
  /\ UNCHANGED <<social, observed, wasMigrated, feed, developers, coins, migrations, alerts,
                 restarts, bf, ud, seenCoins, nscan, mscan, resolve, tracker, pager, ledger, rc, bulk, scanner, rt>>

\* `await fetchRecentCoins(100)` throws: monitorNewCoins logs and rethrows, the `.catch` of
\* the initial call or the try/catch of the interval callback logs
NFetchThrows(s) ==
  /\ phase = "monitor"
  /\ nscan[s].pc = "fetch"
  /\ nscan' = [nscan EXCEPT ![s] = [ScanIdle EXCEPT !.threw = TRUE]]
  /\ UNCHANGED <<social, observed, wasMigrated, feed, developers, coins, migrations, alerts,
                 phase, restarts, bf, ud, seenCoins, mscan>>
  /\ UNCHANGED ext

\* `await fetchRecentMigratedCoins(50)` throws: monitorMigrations logs and rethrows, the
\* `.catch` of the initial call or the try/catch of the interval callback logs
MFetchThrows ==
  /\ phase = "monitor"
  /\ mscan.pc = "fetch"
  /\ mscan' = [MScanIdle EXCEPT !.threw = TRUE]
  /\ UNCHANGED <<social, observed, wasMigrated, feed, developers, coins, migrations, alerts,
                 phase, restarts, bf, ud, seenCoins, nscan>>
  /\ UNCHANGED ext

\* `await fetchRecentCoins(BATCH_SIZE)` throws: the outer catch of scanNewCoins logs and
\* scanNewCoins returns
SFetchThrows ==
  /\ phase = "scanning"
  /\ sscan.pc = "fetch"
  /\ sscan' = [SScanIdle EXCEPT !.threw = TRUE]
  /\ life' = scanNewCoinsReturned(life)
  /\ UNCHANGED <<feed, developers, coins, migrations, alerts, phase, restarts, bf, ud,
                 seenCoins, nscan, mscan, creators, creatorCoins, processedMints,
                 observed, wasMigrated>>
  /\ UNCHANGED <<resolve, tracker, pager, ledger, rc, bulk, scanner, rt>>

\* a rejected store call that leaves monitorNewCoins as a rejected feed request does
NStoreThrowsUncaught(s) ==
  /\ phase = "monitor"
  /\ life.pool = "ended"
  /\ nscan[s].pc \in {"check", "upsert", "getdev", "alert"}
  /\ nscan' = [nscan EXCEPT ![s] = [ScanIdle EXCEPT !.threw = TRUE]]
  /\ UNCHANGED <<social, observed, wasMigrated, feed, developers, coins, migrations, alerts,
                 phase, restarts, bf, ud, seenCoins, mscan>>
  /\ UNCHANGED ext

\* a store call of monitorNewCoins rejects (the pool has ended): the catch of the loop
\* body logs and the loop goes on
NStoreThrows(s) ==
  /\ phase = "monitor"
  /\ life.pool = "ended"
  /\ nscan[s].pc \in {"check", "upsert", "getdev", "alert"}
  /\ nscan' = [nscan EXCEPT ![s] = NScanAt(Tail(nscan[s].queue), seenCoins)]
  /\ UNCHANGED <<social, observed, wasMigrated, feed, developers, coins, migrations, alerts,
                 phase, restarts, bf, ud, seenCoins, mscan>>
  /\ UNCHANGED ext

\* a store call of monitorMigrations rejects: the catch of the loop body logs
MStoreThrows ==
  /\ phase = "monitor"
  /\ life.pool = "ended"
  /\ mscan.pc \in {"upsert", "check", "insmig"}
  /\ mscan' = MScanAt(Tail(mscan.queue), mscan.developersUpdated)
  /\ UNCHANGED <<social, observed, wasMigrated, feed, developers, coins, migrations, alerts,
                 phase, restarts, bf, ud, seenCoins, nscan>>
  /\ UNCHANGED ext

\* a store call of updateDeveloper rejects: it logs and rethrows to its caller's catch
UdStoreThrows ==
  /\ phase # "exited"
  /\ life.pool = "ended"
  /\ ud.pc \in {"dev", "coins"}
  /\ UdReturn(TRUE)
  /\ UNCHANGED <<social, observed, wasMigrated, feed, developers, coins, migrations, alerts,
                 restarts, seenCoins>>
  /\ UNCHANGED <<resolve, tracker, pager, ledger, rc, bulk, scanner, rt>>

\* a store call of Step 3 or Step 4 rejects: the catch of the loop body counts the error
BfStoreThrows ==
  /\ phase = "backfill"
  /\ life.pool = "ended"
  /\ bf.pc \in {"precreate", "storeCoin", "storeMig"}
  /\ LET b == [bf EXCEPT !.errors = @ + 1]
     IN IF bf.pc = "precreate"
        THEN /\ bf' = IF bf.i < Len(bf.addrs) THEN [b EXCEPT !.i = @ + 1]
                      ELSE [b EXCEPT !.pc = "storeCoin", !.i = 1]
             /\ UNCHANGED <<ud, phase, nscan, mscan, life, bulk, scanner, rt>>
        ELSE BfNextCoin(b)
  /\ UNCHANGED <<social, observed, wasMigrated, feed, developers, coins, migrations, alerts,
                 restarts, seenCoins>>
  /\ UNCHANGED <<resolve, tracker, pager, ledger, rc, bulk, scanner, rt>>

\* a store call of processAndSaveCoin rejects: its catch returns {success: false}
SStoreThrows ==
  /\ phase = "scanning"
  /\ life.pool = "ended"
  /\ sscan.pc \in {"saveCreator", "saveCoin", "stats"}
  /\ SScanNext(Tail(sscan.queue))
  /\ UNCHANGED <<feed, developers, coins, migrations, alerts, phase, restarts, bf, ud,
                 seenCoins, nscan, mscan, creators, creatorCoins, observed, wasMigrated>>
  /\ UNCHANGED <<resolve, tracker, pager, ledger, rc, bulk, scanner, rt>>

NextLifecycle ==
  \/ \E m \in Mints : Launch(m)
  \/ \E m \in Mints : Complete(m)
  \/ BfFetchPage
  \/ BfFetchThrows
  \/ BfPrecreate
  \/ BfStoreCoin
  \/ BfStoreMigration
  \/ BfStoreThrows
  \/ UdFetch
  \/ UdFetchThrows
  \/ UdUpsertDeveloper
  \/ UdUpsertCoin
  \/ UdStoreThrows
  \/ NTick
  \/ NFetch(1)
  \/ NFetchThrows(1)
  \/ NCheck(1)
  \/ NUpsert(1)
  \/ NGetDeveloper(1)
  \/ NAlert(1)
  \/ NStoreThrows(1)
  \/ MTick
  \/ MFetch
  \/ MFetchThrows
  \/ MUpsert
  \/ MCheck
  \/ MInsertMigration
  \/ MStoreThrows
  \/ STick
  \/ SFetch
  \/ SFetchThrows
  \/ SProcess
  \/ SSaveCreator
  \/ SSaveCoin
  \/ SUpdateCreatorStats
  \/ SStoreThrows
  \/ Signal
  \/ ShutdownExit

\* one process from its start to its exit: failing feed requests, a shutdown signal at
\* any point, store calls rejected once the pool has ended
SpecLifecycle == Init /\ [][NextLifecycle]_vars

\* ------------------------------------------------- main() of index.js
\* performHistoricalScan was not called: config.scanning.historicalEnabled is false
BfDisabled == [BfStart EXCEPT !.pc = "disabled"]

\* main() of index.js at its first await after Step 2: inside performHistoricalScan
\* when HISTORICAL_SCAN_ENABLED is not 'false' (as Init has it), else past Step 4 with
\* both monitors started; or a program of index-creator.js, as Init has it
InitEntry ==
  \/ Init
  \/ /\ feed \in [status : [Mints -> {"none", "live", "complete"}],
                    creator : [Mints -> Addrs]]
     /\ \A m \in Mints :
          feed.status[m] # "none" => \A x \in Mints : x < m => feed.status[x] # "none"
     /\ feed.creator[1] = "A"
     /\ developers = <<>>
     /\ coins = <<>>
     /\ migrations = [m \in Mints |-> 0]
     /\ alerts = [m \in Mints |-> <<>>]
     /\ phase = "monitor"
     /\ restarts = 0
     /\ bf = BfDisabled
     /\ ud = UdOff
     /\ seenCoins = {}
     /\ nscan = [s \in Slots |-> IF s = 1 THEN [ScanIdle EXCEPT !.pc = "fetch"]
                                  ELSE ScanIdle]
     /\ mscan = [MScanIdle EXCEPT !.pc = "fetch"]
     /\ creators = <<>>
     /\ creatorCoins = <<>>
     /\ processedMints = <<>>
     /\ sscan = SScanIdle
     /\ observed = [m \in Mints |-> "no"]
     /\ wasMigrated = {}
     /\ resolve = ResolveIdle
     /\ life = [LifeStart("index") EXCEPT !.nTimer = TRUE, !.mTimer = TRUE, !.hook = TRUE]
     /\ tracker = TrackerOff
     /\ pager = PagerOff
     /\ ledger = LedgerOff
     /\ rc = [c \in Calls |-> RcOff]
     /\ bulk = BulkOff
     /\ scanner = ScannerOff
     /\ rt = RtOff

\* one process from main() on, with the historical scan enabled or disabled
SpecEntry == InitEntry /\ [][NextLifecycle]_vars

\* ---------------------------------------------------------- push listener
maxReconnectAttempts == 10
reconnectDelay == 5000

\* a reconnect that never gives up
reconnectUnbounded(t) ==
  [t EXCEPT !.reconnectAttempts = @ + 1,
            !.timers = Append(@, reconnectDelay * (t.reconnectAttempts + 1))]

\* a reconnect that waits reconnectDelay before every attempt
reconnectFixedDelay(t) ==
  IF t.reconnectAttempts >= maxReconnectAttempts THEN t
  ELSE [t EXCEPT !.reconnectAttempts = @ + 1, !.timers = Append(@, reconnectDelay)]

\* reconnect(): give up at maxReconnectAttempts, else count the attempt and
\* setTimeout(() => this.connect(), this.reconnectDelay * this.reconnectAttempts)
reconnect(t) ==
  IF t.reconnectAttempts >= maxReconnectAttempts THEN t
  ELSE [t EXCEPT !.reconnectAttempts = @ + 1,
                 !.timers = Append(@, reconnectDelay * (t.reconnectAttempts + 1))]

\* connect(): no api key: return; constructed: `new WebSocket(wsUrl)` returned and the
\* handlers are registered; else it threw and the catch calls reconnect()
connect(t, constructed) ==
  IF ~t.apiKey THEN t
  ELSE IF constructed THEN [t EXCEPT !.sock = "connecting", !.ws = TRUE, !.subscribed = {}]
  ELSE reconnect(t)

\* subscribe(): transactionSubscribe for the tracked wallets on the open socket
subscribe(t) ==
  IF ~t.ws \/ ~t.isConnected \/ t.trackedWallets = {} THEN t
  ELSE [t EXCEPT !.subscribed = t.trackedWallets]

\* loadDevelopersToTrack(): the addresses with migration_count > 0, subscribed at once if
\* connected; loaded: getAllDevelopers returned (else the catch logs)
loadDevelopersToTrack(t, loaded) ==
  IF loaded
  THEN subscribe([t EXCEPT !.trackedWallets =
                     {a \in DOMAIN developers : developers[a].migration_count > 0}])
  ELSE t

\* start(): `await this.loadDevelopersToTrack()` settles, then this.connect() and the
\* setInterval of the refresh
TStart ==
  /\ tracker.pc = "loading"
  /\ \E loaded \in BOOLEAN, constructed \in BOOLEAN :
       tracker' = [connect(loadDevelopersToTrack(tracker, loaded), constructed)
                     EXCEPT !.pc = "running"]
  /\ UNCHANGED <<pipeline, resolve, life, pager, ledger, rc, bulk, scanner, rt>>

\* the refresh interval of start() fires: loadDevelopersToTrack()
TRefresh ==
  /\ tracker.pc = "running"
  /\ \E loaded \in BOOLEAN : tracker' = loadDevelopersToTrack(tracker, loaded)
  /\ UNCHANGED <<pipeline, resolve, life, pager, ledger, rc, bulk, scanner, rt>>

\* the socket emits 'open': isConnected, reconnectAttempts = 0, subscribe()
TOpen ==
  /\ tracker.sock = "connecting"
  /\ tracker' = subscribe([tracker EXCEPT !.sock = "open", !.isConnected = TRUE,
                                          !.reconnectAttempts = 0, !.sinceOpen = 0])
  /\ UNCHANGED <<pipeline, resolve, life, pager, ledger, rc, bulk, scanner, rt>>

\* the socket emits 'close' (after 'error' when the connection failed): isConnected =
\* false, reconnect()
TClose ==
  /\ tracker.sock \in {"connecting", "open", "closing"}
  /\ tracker' = reconnect([tracker EXCEPT !.sock = "closed", !.isConnected = FALSE])
  /\ UNCHANGED <<pipeline, resolve, life, pager, ledger, rc, bulk, scanner, rt>>

\* a reconnect timeout fires: this.connect()
TTimer ==
  /\ tracker.timers # <<>>
  /\ \E i \in 1..Len(tracker.timers), constructed \in BOOLEAN :
       LET t == [tracker EXCEPT
                   !.timers = SubSeq(@, 1, i - 1) \o SubSeq(@, i + 1, Len(@)),
                   !.sinceOpen = @ + 1]
       IN tracker' = connect(t, constructed)
  /\ UNCHANGED <<pipeline, resolve, life, pager, ledger, rc, bulk, scanner, rt>>

\* stop(): this.ws.close() if this.ws is set, this.ws = null, isConnected = false
TStop ==
  /\ tracker.pc = "running"
  /\ tracker' = [tracker EXCEPT
                   !.sock = IF tracker.ws /\ @ \in {"connecting", "open"} THEN "closing"
                            ELSE @,
                   !.ws = FALSE, !.isConnected = FALSE, !.stopped = TRUE]
  /\ UNCHANGED <<pipeline, resolve, life, pager, ledger, rc, bulk, scanner, rt>>

\* the listener started beside running monitors, over stores that hold creators with and
\* without migrations, with and without an api key in the configured RPC URL
InitListener ==
  /\ feed = [status |-> [m \in Mints |-> "none"], creator |-> [m \in Mints |-> "A"]]
  /\ developers \in
       {[a \in D |-> [total_coins |-> 1, migration_count |-> c[a],
                      migration_rate |-> migrationRate(c[a], 1),
                      last_migrated_coin_mint |-> NULL]] :
          D \in SUBSET Addrs, c \in [Addrs -> {0, 1}]}
  /\ coins = <<>>
  /\ migrations = [m \in Mints |-> 0]
  /\ alerts = [m \in Mints |-> <<>>]
  /\ phase = "monitor"
  /\ restarts = 0
  /\ bf = BfReturned
  /\ ud = UdOff
  /\ seenCoins = {}
  /\ nscan = [s \in Slots |-> ScanIdle]
  /\ mscan = MScanIdle
  /\ creators = <<>>
  /\ creatorCoins = <<>>
  /\ processedMints = <<>>
  /\ sscan = SScanIdle
  /\ observed = [m \in Mints |-> "no"]
  /\ wasMigrated = {}
  /\ resolve = ResolveIdle
  /\ life = [LifeStart("index") EXCEPT !.nTimer = TRUE, !.mTimer = TRUE, !.hook = TRUE]
  /\ tracker \in {[TrackerOff EXCEPT !.pc = "loading", !.apiKey = k] : k \in BOOLEAN}
  /\ pager = PagerOff
  /\ ledger = LedgerOff
  /\ rc = [c \in Calls |-> RcOff]
  /\ bulk = BulkOff
  /\ scanner = ScannerOff
  /\ rt = RtOff

NextListener ==
  \/ TStart
  \/ TRefresh
  \/ TOpen
  \/ TClose
  \/ TTimer
  \/ TStop

SpecListener == InitListener /\ [][NextListener]_vars

\* ------------------------------------------------------ paginated fetches
\* `limit` of the loop: 100 in fetchAllMigratedCoins, 1000 in fetchAllUserCoins, scaled down
PagerLimit(fn) == IF fn = "fetchAllMigratedCoins" THEN PageLimit ELSE PageLimit + 1

\* a loop condition that admits one more request: allCoins.length <= maxCoins
PagerAtInclusive(p) ==
  IF p.allCoins <= p.maxCoins THEN [p EXCEPT !.pc = "fetch", !.offsets = Append(@, p.offset)]
  ELSE [p EXCEPT !.pc = "returned"]

\* `while (allCoins.length < maxCoins)` is evaluated: the next request is made, or the
\* loop is left and allCoins returned
PagerAt(p) ==
  IF p.allCoins < p.maxCoins THEN [p EXCEPT !.pc = "fetch", !.offsets = Append(@, p.offset)]
  ELSE [p EXCEPT !.pc = "returned"]

\* the call: fetchAllMigratedCoins(maxCoins) or fetchAllUserCoins(address, maxCoins)
PagerCall(fn, maxCoins) ==
  PagerAt([PagerOff EXCEPT !.fn = fn, !.maxCoins = maxCoins])

\* `const coins = await fetchCoins({offset, limit, ...})` returns a page of n records
\* (the feed may return more than it was asked for): break on an empty page, push, advance
\* the offset, break on a short page, sleep
PFetchPage ==
  /\ pager.pc = "fetch"
  /\ \E n \in 0..PagerLimit(pager.fn) + 1 :
       IF n = 0 THEN pager' = [pager EXCEPT !.pc = "returned"]
       ELSE LET p == [pager EXCEPT !.allCoins = @ + n,
                                   !.offset = @ + PagerLimit(pager.fn)]
            IN pager' = IF n < PagerLimit(pager.fn) THEN [p EXCEPT !.pc = "returned"]
                        ELSE PagerAt(p)
  /\ UNCHANGED <<pipeline, resolve, life, tracker, ledger, rc, bulk, scanner, rt>>

\* the request throws: the loop has no catch, the call rejects
PFetchThrows ==
  /\ pager.pc = "fetch"
  /\ pager' = [pager EXCEPT !.pc = "thrown"]
  /\ UNCHANGED <<pipeline, resolve, life, tracker, ledger, rc, bulk, scanner, rt>>

\* one call of either loop for every maxCoins up to MaxMaxCoins, the feed free to return
\* any page size up to the limit at every request
InitPager ==
  /\ feed = [status |-> [m \in Mints |-> "none"], creator |-> [m \in Mints |-> "A"]]
  /\ developers = <<>>
  /\ coins = <<>>
  /\ migrations = [m \in Mints |-> 0]
  /\ alerts = [m \in Mints |-> <<>>]
  /\ phase = "backfill"
  /\ restarts = 0
  /\ bf = BfStart
  /\ ud = UdOff
  /\ seenCoins = {}
  /\ nscan = [s \in Slots |-> ScanIdle]
  /\ mscan = MScanIdle
  /\ creators = <<>>
  /\ creatorCoins = <<>>
  /\ processedMints = <<>>
  /\ sscan = SScanIdle
  /\ observed = [m \in Mints |-> "no"]
  /\ wasMigrated = {}
  /\ resolve = ResolveIdle
  /\ life = LifeStart("index")
  /\ tracker = TrackerOff
  /\ pager \in {PagerCall(fn, maxCoins) :
                  fn \in {"fetchAllMigratedCoins", "fetchAllUserCoins"},
                  maxCoins \in 0..MaxMaxCoins}
  /\ ledger = LedgerOff
  /\ rc = [c \in Calls |-> RcOff]
  /\ bulk = BulkOff
  /\ scanner = ScannerOff
  /\ rt = RtOff

NextPager ==
  \/ PFetchPage
  \/ PFetchThrows

SpecPager == InitPager /\ [][NextPager]_vars

\* every request of the loop settles: it returns a page or throws
SpecPagerFair == SpecPager /\ WF_vars(NextPager)

\* ------------------------------------------------------ coin write paths
\* the coin objects the feed may hand to a write path. symbol stands for every field a
\* write path copies to a column that only its INSERT sets (symbol, name, description,
\* image_uri, creator, bonding_curve); raydium_pool: the field is set (upsertCoin does not
\* read it)
CoinObjects(path) ==
  [mint : Mints, symbol : {"s", "t"}, created_timestamp : {1, 2}, complete : BOOLEAN,
   raydium_pool : IF path = "social" THEN BOOLEAN ELSE {FALSE},
   usd_market_cap : {NULL, 1}]

\* an INSERT with no ON CONFLICT clause on a table without the UNIQUE constraint
InsertAlways(tbl, excluded, set) == Append(tbl, excluded)

\* INSERT INTO coins ... ON CONFLICT (mint) DO UPDATE SET c = EXCLUDED.c for the columns
\* c of `set`
InsertOnConflict(tbl, excluded, set) ==
  IF \E i \in 1..Len(tbl) : tbl[i].mint = excluded.mint
  THEN [i \in 1..Len(tbl) |->
          IF tbl[i].mint = excluded.mint
          THEN [c \in DOMAIN tbl[i] |-> IF c \in set THEN excluded[c] ELSE tbl[i][c]]
          ELSE tbl[i]]
  ELSE Append(tbl, excluded)

\* upsertCoin(coin) of db/queries.js with every column it sets
upsertCoinQuery(tbl, coin) ==
  InsertOnConflict(tbl,
    [mint |-> coin.mint, symbol |-> coin.symbol,
     created_timestamp |-> coin.created_timestamp,
     is_migrated |-> coin.complete,
     migrated_at |-> IF coin.complete THEN coin.created_timestamp ELSE NULL,
     market_cap |-> coin.usd_market_cap,
     metadata |-> coin],
    {"is_migrated", "migrated_at", "market_cap"})

\* saveCoin(coinData) of services/creator-tracker.js on the coin object processCoin
\* builds: isMigrated from complete, migratedAt from raydium_pool, metadata: coin
saveCoinQuery(tbl, coin) ==
  InsertOnConflict(tbl,
    [mint |-> coin.mint, symbol |-> coin.symbol,
     created_timestamp |-> coin.created_timestamp,
     is_migrated |-> coin.complete,
     migrated_at |-> IF coin.raydium_pool THEN coin.created_timestamp ELSE NULL,
     market_cap |-> coin.usd_market_cap,
     metadata |-> coin],
    {"is_migrated", "migrated_at", "market_cap", "metadata"})

\* the write of the table's path
WriteCoin(path, tbl, coin) ==
  IF path = "wallet" THEN upsertCoinQuery(tbl, coin) ELSE saveCoinQuery(tbl, coin)

\* the rows of `tbl` for `mint`
RowsOf(tbl, mint) == {i \in 1..Len(tbl) : tbl[i].mint = mint}

\* `await upsertCoin(coin)` on the wallet path
LUpsertCoin ==
  /\ ledger.path = "wallet"
  /\ \E coin \in CoinObjects("wallet") :
       ledger' = [ledger EXCEPT !.table = upsertCoinQuery(@, coin)]
  /\ UNCHANGED <<pipeline, resolve, life, tracker, pager, rc, bulk, scanner, rt>>

\* `await saveCoin({...processed.coin, creatorTwitterHandle})` on the social path
LSaveCoin ==
  /\ ledger.path = "social"
  /\ \E coin \in CoinObjects("social") :
       ledger' = [ledger EXCEPT !.table = saveCoinQuery(@, coin)]
  /\ UNCHANGED <<pipeline, resolve, life, tracker, pager, rc, bulk, scanner, rt>>

\* an empty coins table of either deployment, written with any coin objects in any order
InitLedger ==
  /\ feed = [status |-> [m \in Mints |-> "none"], creator |-> [m \in Mints |-> "A"]]
  /\ developers = <<>>
  /\ coins = <<>>
  /\ migrations = [m \in Mints |-> 0]
  /\ alerts = [m \in Mints |-> <<>>]
  /\ ledger \in {[LedgerOff EXCEPT !.path = p] : p \in {"wallet", "social"}}
  /\ phase = IF ledger.path = "wallet" THEN "monitor" ELSE "scanning"
  /\ restarts = 0
  /\ bf = BfReturned
  /\ ud = UdOff
  /\ seenCoins = {}
  /\ nscan = [s \in Slots |-> ScanIdle]
  /\ mscan = MScanIdle
  /\ creators = <<>>
  /\ creatorCoins = <<>>
  /\ processedMints = <<>>
  /\ sscan = SScanIdle
  /\ observed = [m \in Mints |-> "no"]
  /\ wasMigrated = {}
  /\ resolve = ResolveIdle
  /\ life = LifeStart(IF ledger.path = "wallet" THEN "index" ELSE "creator-cjs")
  /\ tracker = TrackerOff
  /\ pager = PagerOff
  /\ rc = [c \in Calls |-> RcOff]
  /\ bulk = BulkOff
  /\ scanner = ScannerOff
  /\ rt = RtOff

NextLedger ==
  \/ LUpsertCoin
  \/ LSaveCoin

SpecLedger == InitLedger /\ [][NextLedger]_vars

\* ------------------------------------------------- concurrent Recompute calls
\* the argument and start of updateDeveloper(address)
RcUpdateDeveloper(address) == [RcOff EXCEPT !.pc = "fetch", !.address = address]

\* processAndSaveCoin(coin) after processCoin resolved the creator of `rec`
RcProcessAndSaveCoin(rec) ==
  [RcOff EXCEPT !.pc = "saveCreator", !.address = HandleOf(rec.mint), !.coin = <<rec>>]

\* a caller (a scan, the backfill) starts call c while the other call may be in flight
RCall(c) ==
  /\ rc[c].pc = "off"
  /\ IF phase = "monitor"
     THEN \E m \in Mints : /\ feed.status[m] # "none"
                           /\ rc' = [rc EXCEPT ![c] = RcUpdateDeveloper(CreatorOf(m))]
     ELSE \E m \in Mints : /\ feed.status[m] # "none"
                           /\ rc' = [rc EXCEPT ![c] = RcProcessAndSaveCoin(CoinRec(m))]
  /\ UNCHANGED <<pipeline, resolve, life, tracker, pager, ledger, bulk, scanner, rt>>

\* `const coins = await fetchAllUserCoins(address)`; no coins: return null
RFetch(c) ==
  /\ rc[c].pc = "fetch"
  /\ LET cs == fetchAllUserCoins(rc[c].address)
     IN rc' = [rc EXCEPT ![c].pc = IF Len(cs) = 0 THEN "done" ELSE "dev",
                         ![c].coins = cs]
  /\ UNCHANGED <<pipeline, resolve, life, tracker, pager, ledger, bulk, scanner, rt>>

\* `const savedDeveloper = await upsertDeveloper(developer)`
RUpsertDeveloper(c) ==
  /\ rc[c].pc = "dev"
  /\ developers' = upsertDeveloper(developers, developerStats(rc[c].address, rc[c].coins))
  /\ rc' = [rc EXCEPT ![c].pc = "coins", ![c].k = 1]
  /\ UNCHANGED <<social, observed, wasMigrated, feed, coins, migrations, alerts, phase, restarts,
                 bf, ud, seenCoins, nscan, mscan>>
  /\ UNCHANGED <<resolve, life, tracker, pager, ledger, bulk, scanner, rt>>

\* `for (const coin of coins) await upsertCoin(coin)`, then return savedDeveloper
RUpsertCoin(c) ==
  /\ rc[c].pc = "coins"
  /\ coins' = upsertCoin(coins, rc[c].coins[rc[c].k])
  /\ wasMigrated' = Marked(wasMigrated, coins')
  /\ rc' = IF rc[c].k < Len(rc[c].coins) THEN [rc EXCEPT ![c].k = @ + 1]
           ELSE [rc EXCEPT ![c].pc = "done"]
  /\ UNCHANGED <<social, observed, feed, developers, migrations, alerts, phase, restarts,
                 bf, ud, seenCoins, nscan, mscan>>
  /\ UNCHANGED <<resolve, life, tracker, pager, ledger, bulk, scanner, rt>>

\* `await saveCreator(processed.creator)`
RSaveCreator(c) ==
  /\ rc[c].pc = "saveCreator"
  /\ creators' = saveCreator(creators, rc[c].address)
  /\ rc' = [rc EXCEPT ![c].pc = "saveCoin"]
  /\ UNCHANGED <<feed, developers, coins, migrations, alerts, phase, restarts, bf, ud,
                 seenCoins, nscan, mscan, creatorCoins, processedMints, sscan, observed,
                 wasMigrated>>
  /\ UNCHANGED <<resolve, life, tracker, pager, ledger, bulk, scanner, rt>>

\* `await saveCoin({...processed.coin, creatorTwitterHandle})`
RSaveCoin(c) ==
  /\ rc[c].pc = "saveCoin"
  /\ creatorCoins' = saveCoin(creatorCoins, rc[c].coin[1], rc[c].address)
  /\ wasMigrated' = Marked(wasMigrated, creatorCoins')
  /\ rc' = [rc EXCEPT ![c].pc = "stats"]
  /\ UNCHANGED <<feed, developers, coins, migrations, alerts, phase, restarts, bf, ud,
                 seenCoins, nscan, mscan, creators, processedMints, sscan, observed>>
  /\ UNCHANGED <<resolve, life, tracker, pager, ledger, bulk, scanner, rt>>

\* `await updateCreatorStats(processed.creator.twitterHandle)`: one UPDATE statement,
\* whose subqueries all read the coins table as of the statement
RUpdateCreatorStats(c) ==
  /\ rc[c].pc = "stats"
  /\ creators' = updateCreatorStats(creators, creatorCoins, rc[c].address)
  /\ rc' = [rc EXCEPT ![c].pc = "done", ![c].coins = creatorCoins]
  /\ UNCHANGED <<feed, developers, coins, migrations, alerts, phase, restarts, bf, ud,
                 seenCoins, nscan, mscan, creatorCoins, processedMints, sscan, observed,
                 wasMigrated>>
  /\ UNCHANGED <<resolve, life, tracker, pager, ledger, bulk, scanner, rt>>

\* an empty store of either deployment and one creator, whose coins appear and migrate
\* while two Recompute calls run
InitRecompute ==
  /\ feed = [status |-> [m \in Mints |-> "none"], creator |-> [m \in Mints |-> "A"]]
  /\ developers = <<>>
  /\ coins = <<>>
  /\ migrations = [m \in Mints |-> 0]
  /\ alerts = [m \in Mints |-> <<>>]
  /\ phase \in {"monitor", "scanning"}
  /\ restarts = 0
  /\ bf = BfReturned
  /\ ud = UdOff
  /\ seenCoins = {}
  /\ nscan = [s \in Slots |-> ScanIdle]
  /\ mscan = MScanIdle
  /\ creators = <<>>
  /\ creatorCoins = <<>>
  /\ processedMints = <<>>
  /\ sscan = SScanIdle
  /\ observed = [m \in Mints |-> "no"]
  /\ wasMigrated = {}
  /\ resolve = ResolveIdle
  /\ life = LifeStart(IF phase = "monitor" THEN "index" ELSE "creator-cjs")
  /\ tracker = TrackerOff
  /\ pager = PagerOff
  /\ ledger = LedgerOff
  /\ rc = [c \in Calls |-> RcOff]
  /\ bulk = BulkOff
  /\ scanner = ScannerOff
  /\ rt = RtOff

NextRecompute ==
  \/ \E m \in Mints : Launch(m)
  \/ \E m \in Mints : Complete(m)
  \/ \E c \in Calls : RCall(c)
  \/ \E c \in Calls : RFetch(c)
  \/ \E c \in Calls : RUpsertDeveloper(c)
  \/ \E c \in Calls : RUpsertCoin(c)
  \/ \E c \in Calls : RSaveCreator(c)
  \/ \E c \in Calls : RSaveCoin(c)
  \/ \E c \in Calls : RUpdateCreatorStats(c)

SpecRecompute == InitRecompute /\ [][NextRecompute]_vars

\* ------------------------------------------------- growth of the seen sets
\* the `n` coins created since the newest mint `top` the loop has met, as the feed lists
\* them (newest first); mints are numbered in the order of their creation
FreshCoins(top, n) == [i \in 1..n |-> [mint |-> top + n + 1 - i, complete |-> FALSE]]

\* the newest mint in the insertion-ordered set `processed`, 0 for the empty set
NewestOf(processed) ==
  IF processed = <<>> THEN 0
  ELSE processed[CHOOSE i \in 1..Len(processed) :
                   \A j \in 1..Len(processed) : processed[j] <= processed[i]]

\* one scan of monitorNewCoins whose response holds n coins it has not met: each passes
\* `seenCoins.has`, and `seenCoins.add(coin.mint)` follows getCoinByMint in either branch.
\* seenCoins holds every mint met so far, so its size is the newest of them. The store
\* calls of the scan (NCheck to NAlert) add nothing to the set and are left to Spec
WMonitorNewCoins(n) ==
  /\ phase = "monitor"
  /\ Cardinality(seenCoins) + n <= MaxSeenMints
  /\ LET recentCoins == FreshCoins(Cardinality(seenCoins), n)
     IN seenCoins' = seenCoins \cup {recentCoins[i].mint : i \in 1..n}
  /\ UNCHANGED <<social, observed, wasMigrated, feed, developers, coins, migrations, alerts,
                 phase, restarts, bf, ud, nscan, mscan>>
  /\ UNCHANGED ext

\* one scan of scanNewCoins whose response holds n coins it has not processed: the filter
\* adds them to processedMints, the loop processes them (SProcess to SUpdateCreatorStats,
\* left to Spec), and the clean-up keeps the last 1000; nothing new: return before it
WScanNewCoins(n) ==
  /\ phase = "scanning"
  /\ NewestOf(processedMints) + n <= MaxSeenMints
  /\ LET r == FilterNew(FreshCoins(NewestOf(processedMints), n), processedMints)
     IN processedMints' = IF r.newCoins = <<>> THEN processedMints
                          ELSE TrimProcessed(r.processed)
  /\ UNCHANGED <<feed, developers, coins, migrations, alerts, phase, restarts, bf, ud,
                 seenCoins, nscan, mscan, creators, creatorCoins, sscan, observed,
                 wasMigrated>>
  /\ UNCHANGED ext

\* a process of either deployment whose polling loop has yet to run
InitSeen ==
  /\ feed = [status |-> [m \in Mints |-> "none"], creator |-> [m \in Mints |-> "A"]]
  /\ developers = <<>>
  /\ coins = <<>>
  /\ migrations = [m \in Mints |-> 0]
  /\ alerts = [m \in Mints |-> <<>>]
  /\ phase \in {"monitor", "scanning"}
  /\ restarts = 0
  /\ bf = BfReturned
  /\ ud = UdOff
  /\ seenCoins = {}
  /\ nscan = [s \in Slots |-> ScanIdle]
  /\ mscan = MScanIdle
  /\ creators = <<>>
  /\ creatorCoins = <<>>
  /\ processedMints = <<>>
  /\ sscan = SScanIdle
  /\ observed = [m \in Mints |-> "no"]
  /\ wasMigrated = {}
  /\ resolve = ResolveIdle
  /\ life = LifeStart(IF phase = "monitor" THEN "index" ELSE "creator-cjs")
  /\ tracker = TrackerOff
  /\ pager = PagerOff
  /\ ledger = LedgerOff
  /\ rc = [c \in Calls |-> RcOff]
  /\ bulk = BulkOff
  /\ scanner = ScannerOff
  /\ rt = RtOff

\* scans that meet one new coin or a response full of new coins (wallet mode), no new coin
\* or a fifth of a response (social mode)
NextSeen ==
  \/ \E n \in {1, RecentLimit} : WMonitorNewCoins(n)
  \/ \E n \in {0, BATCH_SIZE \div 5} : WScanNewCoins(n)

SpecSeen == InitSeen /\ [][NextSeen]_vars

\* ------------------------------------------------------- bulkUpsertCoins
\* longest batch bulkUpsertCoins is called with
BulkMaxLen == 2

\* the coin objects of the batches: one symbol and creation time, any mint and flags
BulkCoins == {c \in CoinObjects("wallet") : c.symbol = "s" /\ c.created_timestamp = 1}

BulkBatches == UNION {[1..n -> BulkCoins] : n \in 0..BulkMaxLen}

\* a session that runs each statement as its own transaction
Autocommit(committed, work) == work

\* after `BEGIN`, what the table holds for other sessions once a statement of the open
\* transaction has produced `work`
Uncommitted(committed, work) == committed

RECURSIVE UpsertAll(_, _)
\* the statement of bulkUpsertCoins applied to each coin of `cs` in order
UpsertAll(tbl, cs) ==
  IF cs = <<>> THEN tbl ELSE UpsertAll(upsertCoinQuery(tbl, Head(cs)), Tail(cs))

\* bulkUpsertCoins(coins) is called: `const client = await pool.connect()` is pending
BCall ==
  /\ bulk.pc = "off"
  /\ \E cs \in BulkBatches :
       bulk' = [BulkOff EXCEPT !.pc = "connect", !.coins = cs, !.before = ledger.table,
                               !.work = ledger.table]
  /\ UNCHANGED <<pipeline, resolve, life, tracker, pager, ledger, rc, scanner, rt>>

\* pool.connect() resolves, `await client.query('BEGIN')` is pending
BConnect ==
  /\ bulk.pc = "connect"
  /\ bulk' = [bulk EXCEPT !.pc = "begin"]
  /\ UNCHANGED <<pipeline, resolve, life, tracker, pager, ledger, rc, scanner, rt>>

\* pool.connect() rejects, outside the try: the rejection is the caller's
BConnectThrows ==
  /\ bulk.pc = "connect"
  /\ bulk' = [bulk EXCEPT !.pc = "thrown"]
  /\ UNCHANGED <<pipeline, resolve, life, tracker, pager, ledger, rc, scanner, rt>>

\* BEGIN resolves: the loop's first `await client.query(query, values)`, or COMMIT for an
\* empty batch
BBegin ==
  /\ bulk.pc = "begin"
  /\ bulk' = IF bulk.coins = <<>> THEN [bulk EXCEPT !.pc = "commit"]
             ELSE [bulk EXCEPT !.pc = "query", !.k = 1]
  /\ UNCHANGED <<pipeline, resolve, life, tracker, pager, ledger, rc, scanner, rt>>

\* the statement of coin k resolves
BQuery ==
  /\ bulk.pc = "query"
  /\ LET work == upsertCoinQuery(bulk.work, bulk.coins[bulk.k])
     IN /\ bulk' = IF bulk.k < Len(bulk.coins)
                   THEN [bulk EXCEPT !.work = work, !.k = @ + 1]
                   ELSE [bulk EXCEPT !.work = work, !.pc = "commit"]
        /\ ledger' = [ledger EXCEPT !.table = Uncommitted(@, work)]
  /\ UNCHANGED <<pipeline, resolve, life, tracker, pager, rc, scanner, rt>>

\* the statement of coin k is rejected (foreign key, a value the column refuses, the
\* connection): the catch runs `await client.query('ROLLBACK')`
BQueryThrows ==
  /\ bulk.pc = "query"
  /\ bulk' = [bulk EXCEPT !.pc = "rollback", !.failed = TRUE]
  /\ UNCHANGED <<pipeline, resolve, life, tracker, pager, ledger, rc, scanner, rt>>

\* BEGIN or COMMIT is rejected: the catch runs ROLLBACK
BControlThrows ==
  /\ bulk.pc \in {"begin", "commit"}
  /\ bulk' = [bulk EXCEPT !.pc = "rollback"]
  /\ UNCHANGED <<pipeline, resolve, life, tracker, pager, ledger, rc, scanner, rt>>

\* COMMIT resolves: `return results`, client.release()
BCommit ==
  /\ bulk.pc = "commit"
  /\ ledger' = [ledger EXCEPT !.table = bulk.work]
  /\ bulk' = [bulk EXCEPT !.pc = "returned"]
  /\ UNCHANGED <<pipeline, resolve, life, tracker, pager, rc, scanner, rt>>

\* ROLLBACK resolves, `throw error`, client.release(); or ROLLBACK is rejected (the
\* connection is lost, the server aborts the open transaction) and its error is thrown
BRollback ==
  /\ bulk.pc = "rollback"
  /\ ledger' = [ledger EXCEPT !.table = Uncommitted(@, bulk.before)]
  /\ bulk' = [bulk EXCEPT !.pc = "thrown"]
  /\ UNCHANGED <<pipeline, resolve, life, tracker, pager, rc, scanner, rt>>

\* a wallet-mode coins table, empty or with one row, and one call of bulkUpsertCoins
InitBulk ==
  /\ feed = [status |-> [m \in Mints |-> "none"], creator |-> [m \in Mints |-> "A"]]
  /\ developers = <<>>
  /\ coins = <<>>
  /\ migrations = [m \in Mints |-> 0]
  /\ alerts = [m \in Mints |-> <<>>]
  /\ phase = "monitor"
  /\ restarts = 0
  /\ bf = BfReturned
  /\ ud = UdOff
  /\ seenCoins = {}
  /\ nscan = [s \in Slots |-> ScanIdle]
  /\ mscan = MScanIdle
  /\ creators = <<>>
  /\ creatorCoins = <<>>
  /\ processedMints = <<>>
  /\ sscan = SScanIdle
  /\ observed = [m \in Mints |-> "no"]
  /\ wasMigrated = {}
  /\ resolve = ResolveIdle
  /\ life = LifeStart("index")
  /\ tracker = TrackerOff
  /\ pager = PagerOff
  /\ ledger \in {[path |-> "wallet", table |-> t] :
                  t \in {<<>>} \cup {upsertCoinQuery(<<>>, c) : c \in BulkCoins}}
  /\ rc = [c \in Calls |-> RcOff]
  /\ bulk = BulkOff
  /\ scanner = ScannerOff
  /\ rt = RtOff

NextBulk ==
  \/ BCall
  \/ BConnect
  \/ BConnectThrows
  \/ BBegin
  \/ BQuery
  \/ BQueryThrows
  \/ BControlThrows
  \/ BCommit
  \/ BRollback

SpecBulk == InitBulk /\ [][NextBulk]_vars

\* ------------------------------------------- transient store failures
\* `await getDeveloperByAddress(coin.creator)` or `await insertAlert(...)` of
\* monitorNewCoins is rejected while the pool is open (a timeout, a dropped connection):
\* the catch of the loop body logs and the loop goes on. observed becomes "lost" when the
\* creator satisfies the alert predicate at that moment: the coin is stored, its mint is
\* in seenCoins, and its alert was not inserted
NQueryRejects(s) ==
  /\ phase = "monitor"
  /\ nscan[s].pc \in {"getdev", "alert"}
  /\ LET coin == Head(nscan[s].queue)
     IN observed' = IF AlertPredicate(developers, CreatorOf(coin.mint))
                    THEN [observed EXCEPT ![coin.mint] = "lost"]
                    ELSE observed
  /\ nscan' = [nscan EXCEPT ![s] = NScanAt(Tail(nscan[s].queue), seenCoins)]
  /\ UNCHANGED <<social, wasMigrated, feed, developers, coins, migrations, alerts,
                 phase, restarts, bf, ud, seenCoins, mscan>>
  /\ UNCHANGED ext

NextTransient ==
  \/ Next
  \/ \E s \in Slots : NQueryRejects(s)

\* the pipelines with store calls of the new-coin scan that may be rejected. The interval
\* keeps firing and every awaited call settles, so no step of the backfill or of a
\* new-coin scan stays pending forever
SpecTransient ==
  /\ Init
  /\ [][NextTransient]_vars
  /\ WF_vars(BfFetchPage) /\ WF_vars(BfPrecreate) /\ WF_vars(BfStoreCoin)
  /\ WF_vars(BfStoreMigration)
  /\ WF_vars(UdFetch) /\ WF_vars(UdUpsertDeveloper) /\ WF_vars(UdUpsertCoin)
  /\ WF_vars(NTick)
  /\ \A s \in Slots :
       /\ WF_vars(NFetch(s)) /\ WF_vars(NCheck(s)) /\ WF_vars(NUpsert(s))
       /\ WF_vars(NGetDeveloper(s)) /\ WF_vars(NAlert(s))

\* ------------------------------------------- overlapping scanNewCoins calls
\* the mints the responses of the feed are made of: the two that entered processedMints
\* first, the one that entered last, and two that are not in it
ScannerMints == {1, 2, ProcessedKeep, ProcessedKeep + 1, ProcessedKeep + 2}

\* longest response of the feed
MaxResponse == 2

\* the responses of fetchRecentCoins(BATCH_SIZE): up to MaxResponse coins, newest first
ScannerResponses ==
  {[i \in 1..Cardinality(S) |-> [mint |-> DescSeq(S)[i], complete |-> FALSE]] :
     S \in {T \in SUBSET ScannerMints : Cardinality(T) <= MaxResponse}}

\* `processAndSaveCoin(coin)` is called with the head of `q`: one more pass of its mint
Pass(passed, q) ==
  IF q = <<>> THEN passed ELSE [passed EXCEPT ![Head(q).mint] = @ + 1]

\* the interval of startRealtimeScanning fires, whether or not an earlier scanNewCoins has
\* returned: `await fetchRecentCoins(BATCH_SIZE)` is pending
OTick(c) ==
  /\ scanner.scan[c].pc = "idle"
  /\ scanner' = [scanner EXCEPT !.scan[c].pc = "fetch"]
  /\ UNCHANGED <<pipeline, resolve, life, tracker, pager, ledger, rc, bulk, rt>>

\* the response arrives: nothing fetched or nothing new: return; else the filter, which
\* tests and adds each mint, and the call of processAndSaveCoin for the first new coin
OFetch(c) ==
  /\ scanner.scan[c].pc = "fetch"
  /\ \E cs \in ScannerResponses :
       LET r == FilterNew(cs, processedMints)
           added == {r.newCoins[i].mint : i \in 1..Len(r.newCoins)}
           fresh == [m \in ScannerMints |-> IF m \in added THEN 0 ELSE scanner.passed[m]]
       IN /\ processedMints' = r.processed
          /\ scanner' = [scanner EXCEPT
                           !.scan[c] = IF r.newCoins = <<>>
                                       THEN [pc |-> "idle", queue |-> <<>>]
                                       ELSE [pc |-> "process", queue |-> r.newCoins],
                           !.passed = Pass(fresh, r.newCoins)]
  /\ UNCHANGED <<feed, developers, coins, migrations, alerts, phase, restarts, bf, ud,
                 seenCoins, nscan, mscan, creators, creatorCoins, sscan, observed,
                 wasMigrated>>
  /\ UNCHANGED <<resolve, life, tracker, pager, ledger, rc, bulk, rt>>

\* processAndSaveCoin and `await sleep(500)` have settled (the store calls of
\* processAndSaveCoin are SProcess to SUpdateCreatorStats of Spec): the call for the next
\* new coin, or the clean-up of processedMints and the return
OProcess(c) ==
  /\ scanner.scan[c].pc = "process"
  /\ LET q == Tail(scanner.scan[c].queue)
     IN /\ scanner' = [scanner EXCEPT
                         !.scan[c] = IF q = <<>> THEN [pc |-> "idle", queue |-> <<>>]
                                     ELSE [pc |-> "process", queue |-> q],
                         !.passed = Pass(@, q)]
        /\ processedMints' = IF q = <<>> THEN TrimProcessed(processedMints)
                             ELSE processedMints
  /\ UNCHANGED <<feed, developers, coins, migrations, alerts, phase, restarts, bf, ud,
                 seenCoins, nscan, mscan, creators, creatorCoins, sscan, observed,
                 wasMigrated>>
  /\ UNCHANGED <<resolve, life, tracker, pager, ledger, rc, bulk, rt>>

\* the scanner after scans that met one new coin each have filled processedMints to the
\* size the clean-up keeps
InitScanner ==
  /\ feed = [status |-> [m \in Mints |-> "none"], creator |-> [m \in Mints |-> "A"]]
  /\ developers = <<>>
  /\ coins = <<>>
  /\ migrations = [m \in Mints |-> 0]
  /\ alerts = [m \in Mints |-> <<>>]
  /\ phase = "scanning"
  /\ restarts = 0
  /\ bf = BfReturned
  /\ ud = UdOff
  /\ seenCoins = {}
  /\ nscan = [s \in Slots |-> ScanIdle]
  /\ mscan = MScanIdle
  /\ creators = <<>>
  /\ creatorCoins = <<>>
  /\ processedMints = [i \in 1..ProcessedKeep |-> i]
  /\ sscan = SScanIdle
  /\ observed = [m \in Mints |-> "no"]
  /\ wasMigrated = {}
  /\ resolve = ResolveIdle
  /\ life = [LifeStart("creator-esm") EXCEPT !.starting = FALSE, !.sTimer = TRUE]
  /\ tracker = TrackerOff
  /\ pager = PagerOff
  /\ ledger = LedgerOff
  /\ rc = [c \in Calls |-> RcOff]
  /\ bulk = BulkOff
  /\ scanner = [ScannerOff EXCEPT !.passed = [m \in ScannerMints |-> 1]]
  /\ rt = RtOff

NextScanner ==
  \/ \E c \in Calls : OTick(c)
  \/ \E c \in Calls : OFetch(c)
  \/ \E c \in Calls : OProcess(c)

SpecScanner == InitScanner /\ [][NextScanner]_vars

\* ------------------------------------- startRealtimeScanning / stopRealtimeScanning
\* startRealtimeScanning() is called: `if (isRunning) return`, else isRunning = true and
\* `await scanNewCoins()` is pending
RtStart ==
  /\ rt.calls < MaxStarts
  /\ rt' = IF rt.isRunning THEN [rt EXCEPT !.calls = @ + 1]
           ELSE [rt EXCEPT !.calls = @ + 1, !.isRunning = TRUE, !.pending = @ + 1]
  /\ UNCHANGED <<pipeline, resolve, life, tracker, pager, ledger, rc, bulk, scanner>>

\* the initial scan of a pending start returns (scanNewCoins catches its errors):
\* `scanInterval = setInterval(...)`
RtSetInterval ==
  /\ rt.pending > 0
  /\ LET id == rt.calls * (MaxStarts + 1) + rt.pending
     IN rt' = [rt EXCEPT !.pending = @ - 1, !.scanInterval = id,
                         !.timers = @ \cup {id}]
  /\ UNCHANGED <<pipeline, resolve, life, tracker, pager, ledger, rc, bulk, scanner>>

\* stopRealtimeScanning(): isRunning = false, clearInterval(scanInterval) if it is set,
\* scanInterval = null
RtStop ==
  /\ rt' = [rt EXCEPT !.isRunning = FALSE, !.scanInterval = NULL,
                      !.timers = @ \ {rt.scanInterval}]
  /\ UNCHANGED <<pipeline, resolve, life, tracker, pager, ledger, rc, bulk, scanner>>

\* the module of the scanner as loaded, before any call
InitStartStop ==
  /\ feed = [status |-> [m \in Mints |-> "none"], creator |-> [m \in Mints |-> "A"]]
  /\ developers = <<>>
  /\ coins = <<>>
  /\ migrations = [m \in Mints |-> 0]
  /\ alerts = [m \in Mints |-> <<>>]
  /\ phase = "scanning"
  /\ restarts = 0
  /\ bf = BfReturned
  /\ ud = UdOff
  /\ seenCoins = {}
  /\ nscan = [s \in Slots |-> ScanIdle]
  /\ mscan = MScanIdle
  /\ creators = <<>>
  /\ creatorCoins = <<>>
  /\ processedMints = <<>>
  /\ sscan = SScanIdle
  /\ observed = [m \in Mints |-> "no"]
  /\ wasMigrated = {}
  /\ resolve = ResolveIdle
  /\ life = LifeStart("creator-cjs")
  /\ tracker = TrackerOff
  /\ pager = PagerOff
  /\ ledger = LedgerOff
  /\ rc = [c \in Calls |-> RcOff]
  /\ bulk = BulkOff
  /\ scanner = ScannerOff
  /\ rt = RtOff

NextStartStop ==
  \/ RtStart
  \/ RtSetInterval
  \/ RtStop

SpecStartStop == InitStartStop /\ [][NextStartStop]_vars

\* ================================================================ claims
\* a new-coin scan is between its existence check of `m` and the end of its loop body
NInFlight(m) ==
  \E s \in Slots : /\ nscan[s].pc \in {"upsert", "getdev", "alert"}
                   /\ Head(nscan[s].queue).mint = m

\* no scan and no updateDeveloper call is in flight in a started deployment
NoOperationInFlight ==
  /\ phase \in {"monitor", "scanning"}
  /\ Quiescent
  /\ ud.pc = "off"
  /\ sscan.pc = "idle"

\* C1: with one new-coin scan at a time, a coin that the existence check found absent
\* from storage while its creator had a stored migration_count > 0 has no alert row while
\* the scan that observed it is still handling it and exactly one alert row from then on,
\* whatever later scans (also those of a restarted process) return
C1_ExactlyOneAlert ==
  \A m \in Mints :
    observed[m] = "hot" => Len(alerts[m]) = IF NInFlight(m) THEN 0 ELSE 1

\* a coin alerted once, observed again by a scan of a restarted process, still has one alert
C1_Witness ==
  \E m \in Mints :
    /\ observed[m] = "hot"
    /\ Len(alerts[m]) = 1
    /\ restarts > 0
    /\ phase = "monitor"
    /\ m \in seenCoins
    /\ Quiescent

\* C2: under any interleaving of the scans that raise alerts, overlapping new-coin scans
\* included, storage holds at most one alert row per coin (a coin has one creator)
C2_AtMostOneAlertPerCoin == \A m \in Mints : Len(alerts[m]) <= 1

\* C3: every step that inserts an alert row for a coin is taken while the stored
\* migration_count of the coin's creator is greater than 0
C3_AlertOnlyForMigrators ==
  [][\A m \in Mints :
       alerts'[m] # alerts[m] => StoredMigrations(CreatorOf(m)) > 0]_vars

\* a scan stored a coin of a creator whose record has migration_count = 0, and returned
\* without an alert for it
C3_Witness ==
  \E m \in Mints :
    /\ observed[m] = "cold"
    /\ m \in DOMAIN coins
    /\ CreatorOf(m) \in DOMAIN developers
    /\ StoredMigrations(CreatorOf(m)) = 0
    /\ alerts[m] = <<>>
    /\ m \in seenCoins
    /\ Quiescent

\* C4: no step turns the is_migrated flag of a stored coin from true to false, in the
\* coins table of either mode
C4_MigratedFlagMonotonic ==
  [][/\ \A m \in DOMAIN coins : coins[m].is_migrated => coins'[m].is_migrated
     /\ \A m \in DOMAIN creatorCoins :
          creatorCoins[m].is_migrated => creatorCoins'[m].is_migrated]_vars

\* C5: once the new-coin scan and the migration scan have both returned, every coin that
\* storage has ever marked is_migrated is marked is_migrated
C5_MigratedAfterScans ==
  (Quiescent /\ ud.pc = "off") =>
    \A m \in wasMigrated : m \in DOMAIN coins => coins[m].is_migrated

\* round(100 * migrated / total, 2) in hundredths of a percent, halves rounded up: the
\* hundredth `rate` with rate - 1/2 <= 10000 * migrated / total < rate + 1/2
IsRateOf(rate, migrated, total) ==
  IF total = 0 THEN rate = 0
  ELSE /\ 2 * rate * total - total <= 20000 * migrated
       /\ 20000 * migrated < 2 * rate * total + total

C7_BackfillSurvivesPageFailure ==
  bf.pagesFailed > 0 => (bf.pc # "thrown" /\ phase # "exited")

\* C8: the migrations table holds at most one row per coin mint
C8_OneMigrationRowPerCoin == \A m \in Mints : migrations[m] <= 1

\* C9: when the migration scan reads back a coin that storage did not mark is_migrated
\* before the scan touched it, the scan goes on to insertMigration (and from there to
\* updateDeveloper) for that coin
C9_UnmarkedCoinGetsEvent ==
  [][(mscan.pc = "check" /\ ~mscan.priorMigrated /\ mscan' # mscan)
       => mscan'.pc = "insmig"]_vars

\* C10: whenever no operation is in flight, every developer row and every creator row
\* holds the number of coins, and of migrated coins, attributed to it in the coins table
C10_CountsMatchCoins ==
  NoOperationInFlight =>
    /\ \A a \in DOMAIN developers :
         LET own == {m \in DOMAIN coins : coins[m].creator_address = a}
         IN /\ developers[a].total_coins = Cardinality(own)
            /\ developers[a].migration_count =
                 Cardinality({m \in own : coins[m].is_migrated})
    /\ \A h \in DOMAIN creators :
         LET own == {m \in DOMAIN creatorCoins :
                       creatorCoins[m].creator_twitter_handle = h}
         IN /\ creators[h].total_coins = Cardinality(own)
            /\ creators[h].migrated_coins =
                 Cardinality({m \in own : creatorCoins[m].is_migrated})

CleanBackfillReturns ==
  /\ bf.pc = "update"
  /\ bf'.pc = "done"
  /\ bf.errors = 0
  /\ ud.pc = "coins"
  /\ ~bf.feedMoved

\* C12: when a backfill that met no error returns, every distinct creator of the fetched
\* migrated coins has a record whose total and migrated counts are the counts over the
\* creator's whole upstream coin history, with the rate derived from them, and the
\* migrations table holds exactly one row for every fetched migrated coin
C12_BackfillSeedsStore ==
  [][CleanBackfillReturns =>
       /\ \A i \in 1..Len(bf.addrs) :
            LET a == bf.addrs[i]
                own == {m \in Mints : feed.status[m] # "none" /\ CreatorOf(m) = a}
                mig == {m \in own : feed.status[m] = "complete"}
            IN /\ a \in DOMAIN developers'
               /\ developers'[a].total_coins = Cardinality(own)
               /\ developers'[a].migration_count = Cardinality(mig)
               /\ IsRateOf(developers'[a].migration_rate, Cardinality(mig),
                           Cardinality(own))
       /\ \A i \in 1..Len(bf.allCoins) :
            bf.allCoins[i].complete => migrations'[bf.allCoins[i].mint] = 1]_vars

\* the mint with the greatest creation timestamp in the non-empty set S
Newest(S) == CHOOSE m \in S : \A x \in S : Created(x) <= Created(m)

\* C13: the row a recompute writes holds the number of the creator's coins, the number of
\* those that are migrated, the rate round(100 * migrated / total, 2), and as last coin
\* the creator's coin with the greatest creation timestamp among all of the creator's
\* coins: updateDeveloper over the coins it fetched, updateCreatorStats over the stored
\* coins of the handle
C13_RecomputeStores ==
  [][/\ (ud.pc = "dev" /\ ud'.pc = "coins") =>
          LET all == {ud.coins[i].mint : i \in 1..Len(ud.coins)}
              mig == {ud.coins[i].mint : i \in {j \in 1..Len(ud.coins) : ud.coins[j].complete}}
              row == developers'[ud.address]
          IN /\ row.total_coins = Cardinality(all)
             /\ row.migration_count = Cardinality(mig)
             /\ IsRateOf(row.migration_rate, Cardinality(mig), Cardinality(all))
             /\ row.last_migrated_coin_mint = Newest(all)
     /\ (sscan.pc = "stats" /\ sscan' # sscan) =>
          LET all == {m \in DOMAIN creatorCoins :
                        creatorCoins[m].creator_twitter_handle = sscan.handle}
              mig == {m \in all : creatorCoins[m].is_migrated}
              row == creators'[sscan.handle]
          IN /\ row.total_coins = Cardinality(all)
             /\ row.migrated_coins = Cardinality(mig)
             /\ IsRateOf(row.success_rate, Cardinality(mig), Cardinality(all))
             /\ row.last_coin_mint = Newest(all)]_vars

\* the scanned fields hold a tweet URL and a community URL
HoldsBoth(fields) ==
  /\ \E i \in DOMAIN fields : fields[i].tweet
  /\ \E i \in DOMAIN fields : fields[i].community

\* C14: when the scanned metadata fields hold both a tweet URL and a community URL, in
\* whichever order, the lookup is made as type 'tweet' on a tweet URL and the identity
\* resolved, if any, is the author of that tweet, never a community's moderator
C14_TweetAuthorWins ==
  HoldsBoth(resolve.fields) =>
    /\ resolve.pc = "identify" =>
         /\ resolve.type = "tweet"
         /\ resolve.fields[resolve.twitterUrl].tweet
    /\ resolve.creator # NoCreator =>
         /\ resolve.creator.kind = "author"
         /\ resolve.creator.source = resolve.twitterUrl
         /\ resolve.fields[resolve.twitterUrl].tweet

\* the community URL is scanned before the tweet URL, in separate fields, and the
\* tweet's author has been resolved
C14_Witness ==
  /\ resolve.pc = "done"
  /\ resolve.creator.kind = "author"
  /\ \E i, j \in DOMAIN resolve.fields :
       /\ i < j
       /\ resolve.fields[i].community /\ ~resolve.fields[i].tweet
       /\ resolve.fields[j].tweet
       /\ resolve.creator.source = j

\* C15: the step in which the identity resolution of a coin fails (processCoin returns
\* null) leaves the social-mode process scanning and the coin recorded in storage, a coin
\* recorded by that step carrying no creator link
C15_UnresolvedCoinRecorded ==
  [][(sscan.pc = "process" /\ sscan' # sscan /\ sscan'.pc # "saveCreator") =>
       LET mint == Head(sscan.queue).mint
       IN /\ phase' = "scanning"
          /\ mint \in DOMAIN creatorCoins'
          /\ mint \notin DOMAIN creatorCoins =>
               creatorCoins'[mint].creator_twitter_handle = "none"]_vars

\* C16: once the stop functions of a deployment's polling loops were called (the functions
\* startRealtimeMonitor and startMigrationMonitor returned, or stopRealtimeScanning), no
\* step begins a scan of those loops, and the step that calls them leaves every scan in
\* flight, and the updateDeveloper call of one, where it was
C16_StopHaltsNewScans ==
  [][/\ \A s \in Slots : nscan[s].pc = "idle" /\ nscan'[s].pc = "fetch" => ~life.stopped
     /\ mscan.pc = "idle" /\ mscan'.pc = "fetch" => ~life.stopped
     /\ sscan.pc = "idle" /\ sscan'.pc = "fetch" => ~life.stopped
     /\ ~life.stopped /\ life'.stopped =>
          /\ nscan' = nscan /\ mscan' = mscan /\ sscan' = sscan /\ ud' = ud
          /\ phase' = phase
          /\ ~life'.nTimer /\ ~life'.mTimer /\ ~life'.isRunning]_vars

\* stopRealtimeScanning was called while the initial scan was awaited; the scan has since
\* returned and its interval is registered
C16_Witness ==
  /\ phase = "scanning"
  /\ life.stopped
  /\ life.sTimer
  /\ sscan.pc = "idle"
  /\ creatorCoins # <<>>

\* C17: the step in which a scan fails as a whole (its feed request throws) leaves the
\* process running and, unless the loop's stop function was called, leaves the loop with
\* its interval registered and no call in flight, so that the next tick runs a scan; this
\* holds for the initial scan of each loop as for a scan a tick began
C17_FailedScanKeepsSchedule ==
  [][/\ \A s \in Slots :
          nscan[s].pc = "fetch" /\ nscan'[s].pc = "idle" /\ nscan'[s].threw =>
            /\ phase' = "monitor"
            /\ life'.stopped \/ life'.nTimer
     /\ mscan.pc = "fetch" /\ mscan'.pc = "idle" /\ mscan'.threw =>
          /\ phase' = "monitor"
          /\ life'.stopped \/ life'.mTimer
     /\ sscan.pc = "fetch" /\ sscan'.pc = "idle" /\ sscan'.threw =>
          /\ phase' = "scanning"
          /\ life'.stopped \/ (life'.sTimer /\ life'.isRunning)]_vars

\* a tick has begun a scan of each wallet-mode loop after the loop's previous scan failed
C17_Witness ==
  /\ phase = "monitor"
  /\ nscan[1].pc = "fetch" /\ nscan[1].threw
  /\ mscan.pc = "fetch" /\ mscan.threw
  /\ ~life.stopped

\* C18: when a process that received SIGINT or SIGTERM has exited, the pool was closed and
\* no polling loop's interval is left registered, whenever the signal arrived
C18_ShutdownReleasesAll ==
  life.shutdown = "done" =>
    /\ life.pool = "ended"
    /\ ~life.nTimer /\ ~life.mTimer /\ ~life.sTimer

\* C19: the listener's reconnect counter is always within 0..maxReconnectAttempts; the
\* step in which a socket opens leaves it at 0; and no step makes the connection attempt
\* of a reconnect timer once maxReconnectAttempts such attempts were made since the last
\* open (or since the start), after which no reconnect timer is pending either
C19_ReconnectBounded ==
  /\ [](/\ tracker.reconnectAttempts \in 0..maxReconnectAttempts
        /\ tracker.sinceOpen \in 0..maxReconnectAttempts
        /\ tracker.sinceOpen = maxReconnectAttempts => tracker.timers = <<>>)
  /\ [][/\ tracker.sock = "connecting" /\ tracker'.sock = "open" =>
             tracker'.reconnectAttempts = 0
        /\ tracker'.sinceOpen = tracker.sinceOpen + 1 =>
             tracker.sinceOpen < maxReconnectAttempts]_vars

\* the listener gave up: ten reconnect attempts in a row ended without an open
C19_Witness ==
  /\ tracker.sinceOpen = maxReconnectAttempts
  /\ tracker.reconnectAttempts = maxReconnectAttempts
  /\ tracker.sock = "closed"
  /\ tracker.timers = <<>>

\* C20: the step of a new-coin scan that evaluates the alert predicate to true keeps the
\* creator's row as storage holds it in that step, with migration_count > 0; the scan
\* holds that row unchanged up to its insertAlert, whose alert row embeds the row's total
\* coins, migration count, migration rate and last migrated coin; so every alert row
\* embeds a migration count greater than 0
C20_AlertEmbedsSnapshot ==
  /\ [](\A m \in Mints : \A i \in 1..Len(alerts[m]) :
          alerts[m][i].developerMigrations > 0)
  /\ [][\A s \in Slots :
          /\ nscan[s].pc = "getdev" /\ nscan'[s].pc = "alert" =>
               LET address == CreatorOf(Head(nscan[s].queue).mint)
               IN /\ address \in DOMAIN developers
                  /\ nscan'[s].developer = developers[address]
                  /\ developers[address].migration_count > 0
          /\ nscan[s].pc = "alert" /\ nscan'[s].pc = "alert" /\ phase' = "monitor" =>
               nscan'[s].developer = nscan[s].developer
          /\ nscan[s].pc = "alert" /\ alerts' # alerts =>
               LET m == Head(nscan[s].queue).mint
                   row == alerts'[m][Len(alerts'[m])]
                   developer == nscan[s].developer
               IN /\ Len(alerts'[m]) = Len(alerts[m]) + 1
                  /\ row.developerAddress = CreatorOf(m)
                  /\ row.developerTotalCoins = developer.total_coins
                  /\ row.developerMigrations = developer.migration_count
                  /\ row.developerMigrationRate = developer.migration_rate
                  /\ row.developerLastMigrated = developer.last_migrated_coin_mint]_vars

\* an alert row whose embedded migration count is the one read at trigger time, storage
\* having recomputed the creator's count since
C20_Witness ==
  \E m \in Mints :
    /\ alerts[m] # <<>>
    /\ CreatorOf(m) \in DOMAIN developers
    /\ alerts[m][1].developerMigrations > 0
    /\ alerts[m][1].developerMigrations # developers[CreatorOf(m)].migration_count

\* C21: a returned fetchAllMigratedCoins(maxCoins) call has collected at most maxCoins
\* coins (which performHistoricalScan takes as its coinsScanned, maxCoins being the
\* configured historical limit)
C21_AtMostMaxCoins ==
  pager.fn = "fetchAllMigratedCoins" /\ pager.pc = "returned" =>
    pager.allCoins <= pager.maxCoins

\* C22: the step in which a wallet-mode new-coin scan writes a coin it found absent from
\* storage leaves the coin stored and its creator with a record, which holds zero counts
\* if the creator had none before
C22_FirstObservationPersists ==
  [][\A s \in Slots :
       nscan[s].pc = "upsert" /\ nscan'[s] # nscan[s] /\ phase' = "monitor" =>
         LET mint == Head(nscan[s].queue).mint
             address == CreatorOf(mint)
         IN /\ mint \in DOMAIN coins'
            /\ address \in DOMAIN developers'
            /\ address \notin DOMAIN developers =>
                 /\ developers'[address].total_coins = 0
                 /\ developers'[address].migration_count = 0]_vars

\* C23: on every coins table the write paths can produce and for every coin object,
\* writing the object leaves exactly one row for its mint, and writing it a second time
\* leaves the table as the first write left it
C23_UpsertIdempotent ==
  \A coin \in CoinObjects(ledger.path) :
    LET once == WriteCoin(ledger.path, ledger.table, coin)
    IN /\ WriteCoin(ledger.path, once, coin) = once
       /\ Cardinality(RowsOf(once, coin.mint)) = 1

\* a table of two rows, the first of them updated since its insert, that a second write of
\* some coin object leaves as it is
C23_Witness ==
  /\ Len(ledger.table) = 2
  /\ ledger.table[1].metadata.complete # ledger.table[1].is_migrated
  /\ \E coin \in CoinObjects(ledger.path) :
       WriteCoin(ledger.path, ledger.table, coin) = ledger.table

\* C24: a write of a coin object whose mint has a row leaves the row's symbol (and the
\* other columns of first observation it stands for), creation timestamp and raw metadata
\* as they were
C24_UpsertKeepsFirstObservation ==
  [][\A i \in 1..Len(ledger.table) :
       /\ Len(ledger'.table) >= i
       /\ ledger'.table[i].mint = ledger.table[i].mint
       /\ ledger'.table[i].symbol = ledger.table[i].symbol
       /\ ledger'.table[i].created_timestamp = ledger.table[i].created_timestamp
       /\ ledger'.table[i].metadata = ledger.table[i].metadata]_vars

\* C25: a write never changes a non-null migrated_at of a stored coin
C25_MigratedAtSetOnce ==
  [][\A i \in 1..Len(ledger.table) :
       ledger.table[i].migrated_at # NULL =>
         /\ Len(ledger'.table) >= i
         /\ ledger'.table[i].migrated_at = ledger.table[i].migrated_at]_vars

\* C26: a stored coin with a non-null migrated_at has is_migrated true
C26_TimestampImpliesFlag ==
  \A i \in 1..Len(ledger.table) :
    ledger.table[i].migrated_at # NULL => ledger.table[i].is_migrated

\* C27: a coin of the migrated list that storage marked is_migrated before the scan's
\* upsertCoin gets no row in migrations and no updateDeveloper call from that scan
C27_MarkedCoinGetsNoEvent ==
  [][(mscan.priorMigrated /\ mscan' # mscan)
       => (migrations' = migrations /\ mscan'.pc # "ud")]_vars

\* C28: with two Recompute calls interleaved, a stored row of a creator holds the total,
\* migrated count, rate and last coin that one call computes from the coins it read at
\* one time (the response of its fetchAllUserCoins, the coins table at its UPDATE)
C28_SingleSnapshot ==
  /\ \A a \in DOMAIN developers :
       \E c \in Calls :
         /\ rc[c].pc \in {"coins", "done"} /\ rc[c].address = a /\ Len(rc[c].coins) > 0
         /\ LET d == developerStats(a, rc[c].coins)
            IN /\ developers[a].total_coins = d.totalCoins
               /\ developers[a].migration_count = d.migrationCount
               /\ developers[a].migration_rate = d.migrationRate
               /\ developers[a].last_migrated_coin_mint = d.lastMigratedCoin
  /\ \A h \in DOMAIN creators :
       (\E c \in Calls : rc[c].pc = "done" /\ rc[c].address = h) =>
         \E c \in Calls :
           /\ rc[c].pc = "done" /\ rc[c].address = h
           /\ LET own == {m \in DOMAIN rc[c].coins :
                            rc[c].coins[m].creator_twitter_handle = h}
                  mig == {m \in own : rc[c].coins[m].is_migrated}
              IN /\ creators[h].total_coins = Cardinality(own)
                 /\ creators[h].migrated_coins = Cardinality(mig)
                 /\ creators[h].success_rate = ROUND2(Cardinality(mig), Cardinality(own))
                 /\ creators[h].last_coin_mint = Newest(own)

\* both calls have written the row of the same creator, from responses that differ
C28_Witness ==
  /\ rc[1].pc = "coins" /\ rc[2].pc = "coins"
  /\ rc[1].address = rc[2].address
  /\ developerStats(rc[1].address, rc[1].coins).migrationCount
       # developerStats(rc[2].address, rc[2].coins).migrationCount
  /\ developerStats(rc[1].address, rc[1].coins).totalCoins
       # developerStats(rc[2].address, rc[2].coins).totalCoins

\* C29: a step in which the work on one item fails (a store call rejects, the coin's
\* foreign key fails, updateDeveloper throws to the loop that called it) leaves the loop
\* at its next item, or past its last one without having thrown; in the backfill it also
\* adds one to stats.errors (which the model drops when the backfill returns)
C29_ItemFailureSkipsItem ==
  [][/\ \A s \in Slots :
          (NStoreThrows(s)
             \/ (NUpsert(s) /\ ~CoinForeignKeyHolds(developers, Head(nscan[s].queue)))) =>
            LET rest == SkipSeen(Tail(nscan[s].queue), seenCoins)
            IN /\ phase' = "monitor"
               /\ ~nscan'[s].threw
               /\ nscan'[s].queue = rest
               /\ nscan'[s].pc = IF rest = <<>> THEN "idle" ELSE "check"
     /\ (MStoreThrows
          \/ (MUpsert /\ ~CoinForeignKeyHolds(developers, Head(mscan.queue)))
          \/ (ud.owner = "ms" /\ (UdFetchThrows \/ UdStoreThrows))) =>
         /\ phase' = "monitor"
         /\ ~mscan'.threw
         /\ mscan'.queue = Tail(mscan.queue)
         /\ mscan'.pc = IF Tail(mscan.queue) = <<>> THEN "idle" ELSE "upsert"
     /\ SStoreThrows =>
         /\ phase' = "scanning"
         /\ ~sscan'.threw
         /\ sscan'.queue = Tail(sscan.queue)
         /\ sscan'.pc = IF Tail(sscan.queue) = <<>> THEN "idle" ELSE "process"
     /\ (BfStoreThrows
          \/ (BfStoreCoin /\ ~CoinForeignKeyHolds(developers, bf.allCoins[bf.i]))
          \/ (ud.owner = "bf" /\ (UdFetchThrows \/ UdStoreThrows))) =>
         LET n == IF bf.pc \in {"precreate", "update"} THEN Len(bf.addrs)
                  ELSE Len(bf.allCoins)
         IN /\ phase' \in {"backfill", "monitor"}
            /\ bf'.pc # "thrown"
            /\ bf'.pc # "done" => bf'.errors = bf.errors + 1
            /\ IF bf.i < n
               THEN /\ bf'.i = bf.i + 1
                    /\ bf'.pc = IF bf.pc = "storeMig" THEN "storeCoin" ELSE bf.pc
               ELSE /\ bf'.pc \in {"storeCoin", "update", "done"}
                    /\ bf'.pc # bf.pc]_vars

\* the backfill has counted an error and is at work on a later item
C29_Witness ==
  /\ phase = "backfill"
  /\ bf.errors > 0
  /\ bf.pc \in {"storeCoin", "storeMig", "update"}

\* C30: between scans the seen set of the new-coin loop holds at most 1000 mints, seenCoins
\* in wallet mode and processedMints in social mode
C30_SeenSetBounded ==
  /\ Cardinality(seenCoins) <= ProcessedKeep
  /\ Len(processedMints) <= ProcessedKeep

\* C31: a call of bulkUpsertCoins in which the statement of some coin was rejected ends
\* by throwing, a call that threw leaves the coins table as it was when the call began,
\* a call that returned leaves every coin of its batch written, and until the call ends
\* the table is as it was
C31_BulkAllOrNothing ==
  /\ bulk.failed => bulk.pc \in {"rollback", "thrown"}
  /\ bulk.pc \in {"connect", "begin", "query", "commit", "rollback", "thrown"} =>
       ledger.table = bulk.before
  /\ bulk.pc = "returned" =>
       /\ ledger.table = UpsertAll(bulk.before, bulk.coins)
       /\ \A i \in 1..Len(bulk.coins) :
            Cardinality(RowsOf(ledger.table, bulk.coins[i].mint)) = 1

\* a call threw at its second coin after the statement of the first, which changed a
\* stored row, had resolved
C31_Witness ==
  /\ bulk.pc = "thrown"
  /\ bulk.failed
  /\ bulk.k = 2
  /\ bulk.work # bulk.before
  /\ bulk.before # <<>>

\* C32: at most one reconnect timeout is pending; its delay is 5000 ms times the number
\* of the attempt it will make, counted from the last 'open' (1 to 10); and a step in
\* which the socket closes adds at most one timeout, whose delay is 5000 ms more than
\* the delay of the attempt before it
C32_LinearBackoff ==
  /\ [](/\ Len(tracker.timers) <= 1
        /\ \A i \in 1..Len(tracker.timers) :
             /\ tracker.timers[i] = 5000 * (tracker.sinceOpen + 1)
             /\ tracker.sinceOpen + 1 \in 1..10)
  /\ [][tracker'.sock = "closed" /\ tracker.sock # "closed" =>
          /\ Len(tracker'.timers) <= Len(tracker.timers) + 1
          /\ \A i \in 1..Len(tracker'.timers) :
               tracker'.timers[i] = 5000 * tracker.sinceOpen + 5000]_vars

\* the tenth attempt in a row is pending, 50000 ms after the close of the ninth
C32_Witness ==
  /\ tracker.sock = "closed"
  /\ tracker.sinceOpen = 9
  /\ tracker.timers = <<50000>>

\* C33: a step of Step 3 of the backfill leaves the row of every creator that has one as
\* it is, so it never takes a stored migration count greater than 0 to 0
C33_PrecreateKeepsStatistics ==
  [][bf.pc = "precreate" /\ phase = "backfill" =>
       \A a \in DOMAIN developers : developers'[a] = developers[a]]_vars

\* C34: a coin the new-coin scan stored, whose creator satisfied the alert predicate when
\* the creator lookup or the alert insert of that scan was rejected, has an alert some
\* time later
C34_LostAlertRecovered ==
  \A m \in Mints : (observed[m] = "lost") ~> (Len(alerts[m]) > 0)

\* C35: at most one monitorNewCoins call is in flight
C35_OneScanInFlight ==
  Cardinality({s \in Slots : nscan[s].pc # "idle"}) <= 1

\* C36: no mint is passed to processAndSaveCoin a second time since it was last added to
\* processedMints, and a mint that is in the set and was not added by a call still in
\* flight is in no call's list of coins to process
C36_PassedOncePerInsertion ==
  /\ \A m \in ScannerMints : scanner.passed[m] <= 1
  /\ \A c, d \in Calls : \A i \in 1..Len(scanner.scan[c].queue) :
       \A j \in 1..Len(scanner.scan[d].queue) :
         scanner.scan[c].queue[i].mint = scanner.scan[d].queue[j].mint => c = d /\ i = j

\* two calls are in flight, each with a new coin of its own, after a clean-up dropped the
\* mint that had entered the set first
C36_Witness ==
  /\ scanner.scan[1].pc = "process" /\ scanner.scan[2].pc = "process"
  /\ Len(processedMints) > ProcessedKeep
  /\ processedMints[1] # 1

\* C37: at most one interval of the scanner is registered, and none is registered when
\* the scanner is stopped and no start awaits its initial scan
C37_AtMostOneTimer ==
  /\ Cardinality(rt.timers) <= 1
  /\ ~rt.isRunning /\ rt.pending = 0 => rt.timers = {}

\* C38: once stop() has returned no step creates a socket and no step adds a reconnect
\* timeout: the 'close' the stop caused schedules nothing, and a timeout that was pending
\* makes no connection
C38_StoppedStaysStopped ==
  [][tracker.stopped =>
       /\ ~(tracker'.sock = "connecting" /\ tracker.sock # "connecting")
       /\ Len(tracker'.timers) <= Len(tracker.timers)]_vars

\* C39: in index.js, while performHistoricalScan has been called and has not returned
\* (it is in progress, or it threw) no interval of a monitor is registered and no scan of
\* a monitor is running; the step that starts the monitors is the step in which the
\* historical scan returns
C39_LoopsAfterBackfill ==
  /\ [](life.entry = "index" /\ bf.pc \notin {"done", "disabled"} =>
          /\ ~life.nTimer /\ ~life.mTimer
          /\ \A s \in Slots : nscan[s].pc = "idle"
          /\ mscan.pc = "idle")
  /\ [][~life.nTimer /\ life'.nTimer => bf.pc \notin {"done", "disabled"} /\ bf'.pc = "done"]_vars

\* both monitors were started by a process whose historical scan had recorded a migration
C39_Witness ==
  /\ bf.pc = "done"
  /\ restarts = 0
  /\ life.nTimer /\ life.mTimer
  /\ nscan[1].pc = "fetch" /\ mscan.pc = "fetch"
  /\ seenCoins = {}
  /\ \E m \in Mints : migrations[m] > 0

\* C40: a call of fetchAllMigratedCoins or fetchAllUserCoins ends whatever the feed
\* returns: its i-th request asks for offset (i - 1) * limit, a request is made only while
\* fewer than maxCoins coins are collected, a page of fewer than `limit` records
\* (empty, short, or a request that threw) is the last one requested, a further request is
\* made only after a full page, and a call that has ended makes no request
C40_PagedFetchTerminates ==
  /\ [](/\ \A i \in 1..Len(pager.offsets) :
             pager.offsets[i] = (i - 1) * PagerLimit(pager.fn)
        /\ pager.pc = "fetch" => pager.allCoins < pager.maxCoins
        /\ Len(pager.offsets) * PagerLimit(pager.fn)
             <= pager.maxCoins + PagerLimit(pager.fn) - 1)
  /\ [][/\ pager.pc = "fetch" /\ pager'.allCoins - pager.allCoins < PagerLimit(pager.fn) =>
             /\ pager'.pc \in {"returned", "thrown"}
             /\ pager'.offsets = pager.offsets
        /\ pager.pc = "fetch" /\ pager'.allCoins >= pager.maxCoins =>
             /\ pager'.pc = "returned"
             /\ pager'.offsets = pager.offsets
        /\ pager.pc = "fetch" /\ pager'.pc = "fetch" =>
             Len(pager'.offsets) = Len(pager.offsets) + 1
        /\ pager.pc \in {"returned", "thrown"} => pager' = pager]_vars
  /\ <>(pager.pc \in {"returned", "thrown"})

\* a call returned because full pages took the count to the maximum, on its fourth request
C40_Witness ==
  /\ pager.pc = "returned"
  /\ Len(pager.offsets) = 4
  /\ pager.allCoins >= pager.maxCoins
  /\ pager.allCoins = 4 * PagerLimit(pager.fn)

====
